-------------------------- MODULE StandardProfile --------------------------
(***************************************************************************)
(* The artifacts of the DACS Standard profile and the checks made on them  *)
(* (roster/dacs/standard-profile.ts), with the agreement builders of       *)
(* negotiation-l2ps/fixed-price.ts and bind.ts.  A hash is the content it  *)
(* is taken of, and a signature the triple of its signer, its separator    *)
(* and the content it covers: two contents have the same hash only when    *)
(* they are equal, and nobody signs for somebody else.                     *)
(***************************************************************************)
EXTENDS Integers, Sequences, FiniteSets

CONSTANTS Buyer, Seller,    \* the claims of the two parties
          Nobody,           \* a claim whose key cannot be resolved
          None              \* an absent artifact or field

Negotiates == {"negotiate-fixed-price", "negotiate-rfq"}
Pays       == {"pay-dem", "pay-x402"}
Delivers   == {"deliver-attested-payload"}

\* standardHash: the artifact without the fields named in omit.
standardHash(x, omit) == [f \in DOMAIN x \ omit |-> x[f]]

signHash(party, sep, hash) == [by |-> party, sep |-> sep, over |-> hash]
verifyHash(sig, sep, hash) == sig.by # Nobody /\ sig.sep = sep /\ sig.over = hash

----------------------------------------------------------------------------
(* Identity presentations and vet records.                                 *)

createIdentityBundle(party, nonce) ==
    LET body == [presentedBy |-> party, nonce |-> nonce]
    IN  [presentedBy |-> party, nonce |-> nonce, presentation |-> signHash(party, "identity", body)]

identityHash(b) == standardHash(b, {"presentation"})

verifyIdentityBundle(b, nonce) ==
    /\ nonce # None => b.nonce = nonce
    /\ b.presentation.by = b.presentedBy
    /\ verifyHash(b.presentation, "identity", identityHash(b))

\* createVetRecord, called through createEmptyVetRecord: only an empty
\* requirement passes without evidence.
createEmptyVetRecord(verifier, job, b, requirement) ==
    LET body == [job |-> job, party |-> b.presentedBy, bundle |-> identityHash(b),
                 requirement |-> requirement, decision |-> "pass"]
    IN  [job |-> job, party |-> b.presentedBy, bundle |-> identityHash(b),
         requirement |-> requirement, decision |-> "pass", sig |-> signHash(verifier, "composite", body)]

verifyVetRecord(r, job, b, requirement, verifier) ==
    /\ r.job = job
    /\ r.party = b.presentedBy
    /\ r.bundle = identityHash(b)
    /\ r.requirement = requirement
    /\ r.decision = "pass"
    /\ r.sig.by = verifier
    /\ verifyHash(r.sig, "composite", standardHash(r, {"sig"}))
----------------------------------------------------------------------------
(* Listings.  A rail is its identifier; boundRail is parameters.rail of    *)
(* the payment phase; shaped is the verdict of listingSchemaReason.        *)

roundHalfUp(n) == IF n % 100 >= 50 THEN n \div 100 + 1 ELSE n \div 100

roundedBand(pricing) ==
    [low  |-> roundHalfUp(pricing.amount * (100 - pricing.minPct)),
     high |-> roundHalfUp(pricing.amount * (100 + pricing.maxPct))]

Kinds(l) == {l.pipeline[i] : i \in 1 .. Len(l.pipeline)}

IndexOf(l, kinds) == IF Kinds(l) \cap kinds = {} THEN 0
                     ELSE CHOOSE i \in 1 .. Len(l.pipeline) :
                             /\ l.pipeline[i] \in kinds
                             /\ \A j \in 1 .. i - 1 : l.pipeline[j] \notin kinds

listingHash(l) == standardHash(l, {"sig"})
listingRef(l)  == [id |-> l.id, version |-> l.version, content |-> listingHash(l)]

signListing(body, party) ==
    [f \in DOMAIN body \cup {"sig"} |-> IF f = "sig" THEN signHash(party, "listing", body) ELSE body[f]]

createListingRevocation(l, party) ==
    LET body == [id |-> l.id, version |-> l.version, content |-> listingHash(l)]
    IN  [id |-> l.id, version |-> l.version, content |-> listingHash(l),
         sig |-> signHash(party, "revocation", body)]

verifyListingRevocation(m, l) ==
    /\ <<m.id, m.version, m.content>> = <<l.id, l.version, listingHash(l)>>
    /\ m.sig.by = l.sig.by
    /\ verifyHash(m.sig, "revocation", standardHash(m, {"sig"}))

\* One negotiation, then its commitment, at most one payment, one delivery.
PipelineSound(l) ==
    /\ Cardinality(Kinds(l)) = Len(l.pipeline)
    /\ Cardinality(Kinds(l) \cap Negotiates) = 1
    /\ IndexOf(l, {"commit-agreement"}) = IndexOf(l, Negotiates) + 1
    /\ l.auto => "negotiate-fixed-price" \in Kinds(l)
    /\ Cardinality(Kinds(l) \cap Pays) <= 1
    /\ Cardinality(Kinds(l) \cap Delivers) = 1

RailsSound(l) ==
    LET rails == {l.rails[i] : i \in 1 .. Len(l.rails)} IN
    /\ Cardinality(rails) = Len(l.rails)
    /\ Kinds(l) \cap Pays # {} => l.boundRail \in rails
    /\ "pay-dem"  \in Kinds(l) => "demos-native:DEM" \in rails
    /\ "pay-x402" \in Kinds(l) => "x402" \in rails

\* The shape of every field; shaped is its verdict.
listingSchemaReason(l) == ~l.shaped

\* The gates in the order of the reader's validation.  Any marker in the
\* revocation slot stops the listing, one that does not verify as well.
verifyListing(l, now, marker) ==
    /\ ~listingSchemaReason(l)
    /\ l.notBefore <= now /\ now <= l.notAfter
    /\ verifyHash(l.sig, "listing", listingHash(l))
    /\ marker = None
    /\ verifyIdentityBundle(l.identity, None)
    /\ PipelineSound(l)
    /\ RailsSound(l)
    /\ l.pricing.kind = "negotiable" => roundedBand(l.pricing).low > 0
    /\ l.sig.by = l.identity.presentedBy
----------------------------------------------------------------------------
(* Agreements, the auto-accept template and the commitment.                *)

createAutoAcceptCommitment(l, seller, until) ==
    LET body == [listing |-> listingRef(l), until |-> until]
    IN  [listing |-> listingRef(l), until |-> until, sig |-> signHash(seller, "template", body)]

\* at is the clock before the commitment is anchored and the anchor's time after.
verifyAutoAcceptCommitment(c, l, at) ==
    /\ l.auto
    /\ at <= c.until
    /\ c.listing = listingRef(l)
    /\ c.sig.by = l.identity.presentedBy /\ c.sig.by = l.sig.by
    /\ verifyHash(c.sig, "template", standardHash(c, {"sig"}))

\* buildAgreement (fixed price) and buildStandardAgreement (RFQ): the rail is
\* the first one the listing accepts.
buildAgreement(job, l, pattern, price, buyerVet, sellerVet, request, now) ==
    [job |-> job, listing |-> listingRef(l),
     parties |-> {[role |-> "buyer",  claim |-> buyerVet.party,  bundle |-> buyerVet.bundle],
                  [role |-> "seller", claim |-> sellerVet.party, bundle |-> sellerVet.bundle]},
     deliverable |-> l.deliverable, price |-> price, currency |-> l.pricing.currency,
     rail |-> IF Kinds(l) \cap Pays = {} THEN None ELSE l.rails[1], deadline |-> now + l.window, request |-> request,
     pattern |-> pattern, generatedAt |-> now, sigs |-> {}]

agreementHash(a) == standardHash(a, {"sigs"})

Signed(x, party, sig) == [x EXCEPT !.sigs = {s \in x.sigs : s.by # party} \cup {sig}]

addAgreementSignature(a, party) == Signed(a, party, signHash(party, "agreement", agreementHash(a)))

addAutoAcceptInstanceSignature(a, c, seller) ==
    Signed(a, seller, signHash(seller, "instance", <<agreementHash(a), standardHash(c, {"sig"})>>))

PriceSound(a, l) ==
    \/ /\ l.pricing.kind = "fixed" \/ a.pattern = "negotiate-fixed-price"
       /\ a.price = l.pricing.amount
    \/ /\ l.pricing.kind = "negotiable" /\ a.pattern = "negotiate-rfq"
       /\ roundedBand(l.pricing).low <= a.price /\ a.price <= roundedBand(l.pricing).high

\* The signature of one party, the template's instance when the seller auto-accepts.
PartySigned(a, l, p, c, at) ==
    \E s \in a.sigs :
        /\ s.by = p.claim
        /\ IF p.role = "seller" /\ l.auto
           THEN /\ c # None /\ verifyAutoAcceptCommitment(c, l, at)
                /\ verifyHash(s, "instance", <<agreementHash(a), standardHash(c, {"sig"})>>)
           ELSE verifyHash(s, "agreement", agreementHash(a))

verifyAgreement(a, l, roles, c, at) ==
    /\ a.deadline >= a.generatedAt
    /\ \A r \in {"buyer", "seller"} : Cardinality({p \in a.parties : p.role = r}) = 1
    /\ Cardinality({p.claim : p \in a.parties}) = Cardinality(a.parties)
    /\ a.listing = listingRef(l)
    /\ a.pattern \in Kinds(l)
    /\ a.deliverable = l.deliverable
    /\ a.currency = l.pricing.currency
    /\ a.price > 0 /\ PriceSound(a, l)
    /\ (Kinds(l) \cap Pays # {}) = (a.rail # None)
    /\ a.rail # None => a.rail \in {l.rails[i] : i \in 1 .. Len(l.rails)}
    /\ \A p \in {q \in a.parties : q.role \in roles} : PartySigned(a, l, p, c, at)

createCommitment(orchestrator, a, now) ==
    LET body == [job |-> a.job, agreement |-> agreementHash(a), listing |-> a.listing,
                 parties |-> {p.claim : p \in a.parties}, pattern |-> a.pattern, committedAt |-> now]
    IN  [f \in DOMAIN body \cup {"sig"} |->
            IF f = "sig" THEN signHash(orchestrator, "commitment", body) ELSE body[f]]

verifyCommitment(c, a, l, anchoredAt) ==
    /\ <<c.job, c.agreement, c.listing, c.pattern>> = <<a.job, agreementHash(a), a.listing, a.pattern>>
    /\ c.committedAt >= a.generatedAt /\ anchoredAt >= a.generatedAt
    /\ c.parties = {p.claim : p \in a.parties}
    /\ \E p \in a.parties : p.claim = c.sig.by /\ p.role = "buyer"
    /\ anchoredAt <= l.notAfter
    /\ a.deadline <= anchoredAt + l.window
    /\ verifyHash(c.sig, "commitment", standardHash(c, {"sig"}))
----------------------------------------------------------------------------
(* Settlement evidence and the terminal bundles.                           *)

signSettlementEvidence(job, phase, amount, what, party) ==
    LET body == [job |-> job, phase |-> phase, amount |-> amount, what |-> what]
    IN  [job |-> job, phase |-> phase, amount |-> amount, what |-> what,
         sig |-> signHash(party, "evidence", body)]

\* what is the receipt of a payment (None when it names no final transaction)
\* and the attestation of a delivery.
verifyEvidence(e, orchestrator, a) ==
    /\ e.job = a.job
    /\ e.phase \in Pays => e.amount = a.price
    /\ e.what # None
    /\ e.sig.by = orchestrator
    /\ verifyHash(e.sig, "evidence", standardHash(e, {"sig"}))

bundleHash(b) == standardHash(b, {"sigs", "anchoredByRole"})

addBundleSignature(b, party) == Signed(b, party, signHash(party, "bundle", bundleHash(b)))

Entry(index, kind, outcome) == [index |-> index, kind |-> kind, outcome |-> outcome]

SummarySound(b) ==
    /\ \A i \in 2 .. Len(b.summary) : b.summary[i - 1].index < b.summary[i].index
    /\ LET ok == {b.summary[i].kind : i \in {n \in 1 .. Len(b.summary) : b.summary[n].outcome = "ok"}} IN
       IF b.outcome = "completed"
       THEN /\ b.agreement # None
            /\ \A i \in 1 .. Len(b.summary) : b.summary[i].outcome = "ok"
            /\ ok \cap Negotiates # {} /\ "commit-agreement" \in ok /\ ok \cap Delivers # {}
            /\ ok \cap Pays # {} => Cardinality(b.evidence) >= 2
            /\ {p.role : p \in b.parties} = {"buyer", "seller"}
       ELSE \E i \in 1 .. Len(b.summary) : b.summary[i].outcome = "fail"

\* roles are the parties whose signature is asked for.
verifyBundle(b, role, roles) ==
    /\ b.anchoredByRole = role
    /\ role \in {p.role : p \in b.parties}
    /\ SummarySound(b)
    /\ LET needed == IF b.outcome = "aborted-by-self" THEN {} ELSE {p \in b.parties : p.role \in roles} IN
       /\ \A p \in needed : \E s \in b.sigs : s.by = p.claim /\ verifyHash(s, "bundle", bundleHash(b))
       /\ needed = {} => b.sigs # {}

sameCanonicalBundle(x, y) == bundleHash(x) = bundleHash(y)
============================================================================
