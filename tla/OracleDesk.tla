----------------------------- MODULE OracleDesk -----------------------------
(***************************************************************************)
(* The oracle desk: it fetches a URL under an attestation (attested-       *)
(* fetch.ts directly, live-dahr.ts through a node that anchors what it     *)
(* saw), reads one field of the body with a selector (attest-any.ts),      *)
(* charges (server.ts) and delivers (dacs/wire/oracle-desk.ts).  A body is *)
(* [json, at], at[sel] being {} or {the value there}; a value is [text,    *)
(* shape], its JSON text and what it means.  A hash is what it covers.     *)
(***************************************************************************)
EXTENDS Integers, Sequences, FiniteSets

CONSTANTS OracleCalls,   \* [route, urls, selector, product]
          Bodies,        \* what a URL may answer with
          SafeUrls,      \* https and public
          GoodSelectors, \* that parse
          MaxOracleCalls \* bound on the requests

VARIABLES oracle,    \* the request in work: [at, call, port, got]; got: the attested results
          chain,     \* anchor transactions: sequence of [url, hash, confirmed]
          charges,   \* of the charge policy: set of [no, product]
          answers,   \* responses: set of [no, call, value, got, status]
          asked      \* requests so far

oracleVars == <<oracle, chain, charges, answers, asked>>

IdleDesk == [at |-> "idle"]

OracleInit == oracle = IdleDesk /\ chain = <<>> /\ charges = {} /\ answers = {} /\ asked = 0

-----------------------------------------------------------------------------

SafeUrl(url) == url \in SafeUrls
Parses(selector) == selector \in GoodSelectors

\* A request is checked before anything is fetched; a consensus needs two
\* sources, and looks at each URL when its turn comes.
resolveRequest(c) == Parses(c.selector) /\ SafeUrl(c.urls[1])
MayAsk(c) == IF c.route = "consensus" THEN Len(c.urls) >= 2 /\ Parses(c.selector) ELSE resolveRequest(c)

Answer(status, value) ==
    /\ answers' = answers \cup {[no |-> asked, call |-> oracle.call, value |-> value, got |-> oracle.got, status |-> status]}
    /\ oracle' = IdleDesk

Ask ==
    /\ oracle.at = "idle" /\ asked < MaxOracleCalls
    /\ \E c \in OracleCalls, port \in {"direct", "dahr"} :
           oracle' = [at |-> IF MayAsk(c) THEN "fetch" ELSE "refuse", call |-> c, port |-> port, got |-> <<>>]
    /\ asked' = asked + 1
    /\ UNCHANGED <<chain, charges, answers>>

\* 400: nothing was fetched and nothing is charged.
RefuseCall ==
    /\ oracle.at = "refuse"
    /\ Answer(400, {})
    /\ UNCHANGED <<chain, charges, asked>>

\* The node's hash, where it gives one, must be that of the body.
NodeHashHolds(reported, body) == \A h \in reported : h = body

extractBySelector(body, sel) == IF body.json THEN body.at[sel] ELSE {}

\* A single request names one URL.  What a JSON text means is in the text.
ASSUME OracleAssumption ==
    /\ \A c \in OracleCalls : Len(c.urls) \in Nat /\ (c.route # "consensus" => Len(c.urls) = 1)
    /\ \A u, x \in SafeUrls, sel \in GoodSelectors : \A b \in Bodies[u], d \in Bodies[x] :
         \A v \in extractBySelector(b, sel), w \in extractBySelector(d, sel) :
             v.text = w.text => v.shape = w.shape

\* The anchor of this request is the transaction the node returned with it.
AnchorRef == Len(chain')

Attested(url, body, hash, tx) == [url |-> url, body |-> body, digest |-> hash, tx |-> tx]

\* attestValue: what was fetched must hold the field.
attestValue(r) ==
    IF extractBySelector(r.body, oracle.call.selector) = {} THEN Answer(422, {})
    ELSE /\ oracle' = [oracle EXCEPT !.got = Append(@, r),
                                     !.at = IF Len(oracle.got) + 1 < Len(oracle.call.urls) THEN "fetch" ELSE "sell"]
         /\ UNCHANGED answers

Url == oracle.call.urls[Len(oracle.got) + 1]

\* No answer, a body above the cap, an error status; or not a public URL.
FetchFails ==
    /\ oracle.at = "fetch"
    /\ Answer(IF SafeUrl(Url) THEN 502 ELSE 400, {})
    /\ UNCHANGED <<chain, charges, asked>>

\* The direct port signs what it fetched.
FetchDirect ==
    /\ oracle.at = "fetch" /\ oracle.port = "direct" /\ SafeUrl(Url)
    /\ \E body \in Bodies[Url] : attestValue(Attested(Url, body, body, 0))
    /\ UNCHANGED <<chain, charges, asked>>

\* The DAHR port relays what the node fetched, hashed and anchored; the
\* anchor confirms later.
FetchDahr ==
    /\ oracle.at = "fetch" /\ oracle.port = "dahr" /\ SafeUrl(Url)
    /\ \E body \in Bodies[Url], reported \in {{}} \cup {{b} : b \in Bodies[Url]} :
           /\ chain' = Append(chain, [url |-> Url, hash |-> reported, confirmed |-> FALSE])
           /\ IF NodeHashHolds(reported, body)
              THEN attestValue(Attested(Url, body, IF reported = {} THEN body ELSE CHOOSE h \in reported : TRUE, AnchorRef))
              ELSE Answer(502, {})
    /\ UNCHANGED <<charges, asked>>

Confirm ==
    /\ \E i \in DOMAIN chain : ~chain[i].confirmed /\ chain' = [chain EXCEPT ![i].confirmed = TRUE]
    /\ UNCHANGED <<oracle, charges, answers, asked>>

\* Sources agree when the texts of their values are the same.
Agree(values) == \A i \in DOMAIN values : \A v \in values[i], w \in values[1] : v.text = w.text

\* The value was read before the charge: a failure is answered, never charged.
\* attestConsensus is a library call, without a charge.
Sell ==
    /\ oracle.at = "sell"
    /\ LET values == [i \in DOMAIN oracle.got |-> extractBySelector(oracle.got[i].body, oracle.call.selector)] IN
       /\ IF Agree(values) THEN Answer(200, values[1]) ELSE Answer(422, {})
       /\ charges' = IF Agree(values) /\ oracle.call.route # "consensus" THEN charges \cup {[no |-> asked, product |-> oracle.call.product]} ELSE charges
    /\ UNCHANGED <<chain, asked>>

OracleNext == Ask \/ RefuseCall \/ FetchFails \/ FetchDirect \/ FetchDahr \/ Sell \/ Confirm

-----------------------------------------------------------------------------
(* What a stranger checks.                                                 *)

verifyAttestation(r) == r.digest = r.body

oracleObserveDelivered(a) ==
    /\ verifyAttestation(a.got[1])
    /\ a.got[1].url = a.call.urls[1]
    /\ \A v \in extractBySelector(a.got[1].body, a.call.selector), w \in a.value : v.text = w.text

\* The anchor is found, carries the digest, names the URL and is confirmed.
verifyLiveAnchorOnChain(r) ==
    r.tx \in DOMAIN chain /\ chain[r.tx].hash = {r.digest} /\ chain[r.tx].url = r.url /\ chain[r.tx].confirmed

Delivered == {a \in answers : a.status = 200}

-----------------------------------------------------------------------------

\* Every value the desk sells is one a stranger confirms from the delivery
\* alone, through both ports and whatever hash the node reported: the body is
\* the one attested and the selector reads the delivered value in it.
EverySaleIsObserved == \A a \in Delivered : \A i \in DOMAIN a.got : verifyAttestation(a.got[i]) /\ oracleObserveDelivered(a)

\* A consensus is one: every source that was asked says what was delivered.
ConsensusIsAgreement ==
    \A a \in Delivered : Len(a.got) = Len(a.call.urls)
        /\ \A i \in DOMAIN a.got : \A v \in extractBySelector(a.got[i].body, a.call.selector), w \in a.value : v.shape = w.shape

\* Once the anchor of a value sold through the node is confirmed, the chain
\* commits to the body it was read from, if the node gave its hash.
AnchorIsOfTheBody ==
    \A a \in Delivered : \A i \in DOMAIN a.got :
        LET r == a.got[i] IN
        r.tx # 0 /\ chain[r.tx].confirmed /\ chain[r.tx].hash # {} => verifyLiveAnchorOnChain(r) /\ chain[r.tx].hash = {r.body}
=============================================================================
