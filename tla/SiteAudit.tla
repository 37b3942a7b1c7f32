----------------------------- MODULE SiteAudit ------------------------------
(***************************************************************************)
(* The site auditor: an audit takes timing samples, inspects the           *)
(* certificate and probes the plain-http variant, attests what it measured *)
(* and notes what failed (site-auditor/auditor.ts, prober.ts), derives     *)
(* scores from that alone (checks.ts) and is verified by deriving them     *)
(* again (report.ts).  Two audits of one site, before and after, settle a  *)
(* pay-on-improvement contract (compare.ts).  Times are hundredths of a    *)
(* millisecond, scores tenths of a point.                                  *)
(***************************************************************************)
EXTENDS Integers, Sequences, FiniteSets, SequencesExt, TLC

CONSTANTS Answers,         \* what the site may answer: [total, status, headers, zip, cache]
          CertDays,        \* days a certificate may have left
          Samples,         \* timing samples per audit
          MAX_REDIRECTS,
          Targets,         \* improvement targets: [kind, category, need]
          SiteSchemes      \* "https", "http"

ASSUME SiteAssumption ==
    /\ Samples \in Nat \ {0} /\ MAX_REDIRECTS \in Nat /\ CertDays \subseteq Int /\ SiteSchemes \subseteq {"https", "http"}
    /\ Answers \subseteq [total : Nat, status : Nat, headers : SUBSET {"hsts", "csp", "nosniff", "frame", "referrer"},
                           zip : BOOLEAN, cache : BOOLEAN]
    /\ \A t \in Targets : /\ t.kind \in {"overall-score-gain", "category-score-gain", "metric-drop-pct"} /\ t.need \in Int
                          /\ t.kind = "category-score-gain" => t.category \in {"performance", "tls", "headers", "hygiene"}

VARIABLES site,       \* control: [at, scheme, hops, sample]
          evidence,   \* attested measurements of the audit in hand: [id, kind, val]
          gaps,       \* the measurements that failed: a bag, as a sequence of kinds
          audits,     \* the reports so far: baseline, then current
          visited     \* the hosts of the probe in hand, in order

siteVars == <<site, evidence, gaps, audits, visited>>

SiteInit ==
    /\ \E s \in SiteSchemes : site = [at |-> "probe", scheme |-> s, hops |-> 0, sample |-> 1]
    /\ evidence = <<>> /\ gaps = <<>> /\ audits = <<>> /\ visited = <<>>

-----------------------------------------------------------------------------
(* The assessment.                                                         *)

r1(num, den) == (2 * num + den) \div (2 * den)      \* num / den rounded

\* The k-th smallest of a family of numbers.
Ranked(val, k) ==
    val[CHOOSE i \in DOMAIN val :
           Cardinality({j \in DOMAIN val : val[j] < val[i] \/ (val[j] = val[i] /\ j < i)}) = k - 1]

\* Linear interpolation between the two nearest ranks.
percentile(val, p) ==
    LET rank == (Cardinality(DOMAIN val) - 1) * p
        lo == rank \div 100 + 1
        hi == IF rank % 100 = 0 THEN lo ELSE lo + 1
    IN  Ranked(val, lo) + ((rank % 100) * (Ranked(val, hi) - Ranked(val, lo))) \div 100

Stepped(table, x, floor) ==
    LET at == {i \in DOMAIN table : x <= table[i][1]} IN
    IF at = {} THEN floor ELSE table[CHOOSE i \in at : \A j \in at : i <= j][2]

scorePerformance(ms) == Stepped(<<<<20000, 1000>>, <<50000, 850>>, <<100000, 700>>, <<200000, 500>>, <<400000, 250>>>>, ms, 100)
scoreTls(days)       == Stepped(<<<<-60, 1000>>, <<-30, 800>>, <<-14, 600>>, <<-7, 400>>, <<-1, 200>>>>, 0 - days, 0)

SECURITY_HEADERS == [hsts |-> 300, csp |-> 300, nosniff |-> 150, frame |-> 150, referrer |-> 100]
scoreHeaders(present) ==
    LET earned(h) == IF h \in present THEN SECURITY_HEADERS[h] ELSE 0
    IN  earned("hsts") + earned("csp") + earned("nosniff") + earned("frame") + earned("referrer")

\* The redirect counts only where it was measured: "n/a" elsewhere.
scoreHygiene(zip, cache, redirect) ==
    LET earned == (IF zip THEN 40 ELSE 0) + (IF cache THEN 20 ELSE 0) + (IF redirect = "yes" THEN 40 ELSE 0)
    IN  r1(1000 * earned, IF redirect = "n/a" THEN 60 ELSE 100)

CATEGORY_WEIGHTS == [performance |-> 40, tls |-> 20, headers |-> 25, hygiene |-> 15]

Cat(score, degraded, cites, reason) == [score |-> score, degraded |-> degraded, cites |-> cites, reason |-> reason]
GapsOf(gs, kind) == Cardinality({i \in DOMAIN gs : gs[i] = kind})
\* The reason of the first gap of a kind: 1, or 0 when there is none.
gapReason(gs, kind) == IF GapsOf(gs, kind) > 0 THEN 1 ELSE 0

Live(categories) == {c \in DOMAIN categories : ~categories[c].degraded}

\* The hygiene category, of the parts that were measured: zip and cache on a
\* good answer, the redirect where there was one to look at.
HygieneOf(answer, redirect, cites, lack) ==
    IF answer = {} /\ redirect = "unseen" THEN Cat(0, TRUE, {}, lack)
    ELSE LET applicable == IF redirect = "unseen" THEN "n/a" ELSE redirect
             full == {scoreHygiene(a.zip, a.cache, applicable) : a \in answer}
         IN  Cat(IF full # {} THEN CHOOSE x \in full : TRUE ELSE IF redirect = "yes" THEN 1000 ELSE 0, lack > 0, cites, lack)

\* The mean of the categories that were measured, by their weights.
AllFour(part) == part["performance"] + part["tls"] + part["headers"] + part["hygiene"]
Overall(cats) ==
    LET weight == [c \in DOMAIN CATEGORY_WEIGHTS |-> IF cats[c].degraded THEN 0 ELSE CATEGORY_WEIGHTS[c]]
        earned == [c \in DOMAIN CATEGORY_WEIGHTS |-> cats[c].score * weight[c]]
    IN  IF AllFour(weight) = 0 THEN 0 ELSE r1(AllFour(earned), AllFour(weight))

\* The response times of the samples.
Totals(ev) == [i \in {k \in DOMAIN ev : ev[k].kind = "timing-sample"} |-> ev[i].val.total]
P95(ev) == r1(percentile(Totals(ev), 95), 10)

\* deriveAssessment, a function of the evidence and the gaps alone.
deriveAssessment(ev, gs, scheme) ==
    LET at(kind)  == {i \in DOMAIN ev : ev[i].kind = kind}
        ids(I)    == {ev[i].id : i \in I}
        good      == {i \in at("timing-sample") : ev[i].val.status >= 200 /\ ev[i].val.status < 400}
        source    == CHOOSE i \in good : \A j \in good : i <= j
        first(k)  == CHOOSE i \in at(k) : \A j \in at(k) : i <= j
        redirected == at("http-redirect") # {}
        redirect  == IF ~redirected THEN "unseen" ELSE IF ev[first("http-redirect")].val.secure THEN "yes" ELSE "no"
        perf == IF at("timing-sample") = {} THEN Cat(0, TRUE, {}, gapReason(gs, "timing-sample"))
                ELSE Cat(scorePerformance(P95(ev) * 10), FALSE, ids(at("timing-sample")), GapsOf(gs, "timing-sample"))
        tls  == IF scheme = "http" THEN Cat(0, TRUE, {}, 0)
                ELSE IF at("tls") = {} THEN Cat(0, TRUE, {}, gapReason(gs, "tls"))
                ELSE Cat(scoreTls(ev[first("tls")].val), FALSE, ids({first("tls")}), 0)
        hdrs == IF good = {} THEN Cat(0, TRUE, {}, 0) ELSE Cat(scoreHeaders(ev[source].val.headers), FALSE, ids({source}), 0)
        lack == (IF good = {} THEN 1 ELSE 0) + (IF scheme = "https" /\ ~redirected THEN 2 + gapReason(gs, "http-redirect") ELSE 0)
        hyg  == HygieneOf({ev[i].val : i \in IF good # {} THEN {source} ELSE {}}, redirect,
                          ids((IF good # {} THEN {source} ELSE {}) \cup at("http-redirect")), lack)
        cats == [performance |-> perf, tls |-> tls, headers |-> hdrs, hygiene |-> hyg]
    IN  [categories |-> cats, overall |-> Overall(cats)]

-----------------------------------------------------------------------------
(* An audit.                                                               *)

\* The measurement in hand is attested, or noted as failed; then the next
\* one: the samples, and for an https target the certificate and the plain
\* variant.
AfterSample == IF site.sample < Samples THEN [site EXCEPT !.sample = @ + 1, !.hops = 0]
               ELSE [site EXCEPT !.at = IF site.scheme = "https" THEN "tls" ELSE "derive", !.hops = 0]
Measured(kind, val) == evidence' = Append(evidence, [id |-> Len(evidence) + 1, kind |-> kind, val |-> val]) /\ UNCHANGED gaps
Failed(kind)        == gaps' = Append(gaps, kind) /\ UNCHANGED evidence

MayFollow == site.hops < MAX_REDIRECTS

\* assertSafeProbeUrl and resolvePublicAddress, before every request.
assertSafeProbeUrl(host) == host = "public"

\* One request of a probe: its host may turn out private, the request may
\* fail or time out, be redirected, or be answered.  A redirect past the
\* limit fails the probe.
ProbeRequest ==
    /\ site.at \in {"probe", "redirect"}
    /\ LET kind == IF site.at = "probe" THEN "timing-sample" ELSE "http-redirect"
           after == IF site.at = "probe" THEN AfterSample ELSE [site EXCEPT !.at = "derive", !.hops = 0]
       IN \/ Failed(kind) /\ site' = after /\ visited' = <<>>
          \/ \E host \in {"public", "private"} :
                /\ assertSafeProbeUrl(host)
                /\ \/ /\ MayFollow
                      /\ site' = [site EXCEPT !.hops = @ + 1] /\ visited' = Append(visited, host)
                      /\ UNCHANGED <<evidence, gaps>>
                   \/ /\ IF site.at = "probe" THEN \E a \in Answers : Measured(kind, a)
                         ELSE \E https \in BOOLEAN : Measured(kind, [secure |-> site.hops >= 1 /\ https])
                      /\ site' = after /\ visited' = <<>>
    /\ UNCHANGED audits

TlsInspect ==
    /\ site.at = "tls"
    /\ (\E d \in CertDays : Measured("tls", d)) \/ Failed("tls")
    /\ site' = [site EXCEPT !.at = "redirect"]
    /\ UNCHANGED <<audits, visited>>

SiteReport(ev, gs) == LET a == deriveAssessment(ev, gs, site.scheme) IN
                      [evidence |-> ev, gaps |-> gs, categories |-> a.categories, overall |-> a.overall]

\* The report; the second audit of the site follows the first.
Derive ==
    /\ site.at = "derive"
    /\ audits' = Append(audits, SiteReport(evidence, gaps))
    /\ evidence' = <<>> /\ gaps' = <<>>
    /\ site' = [site EXCEPT !.at = IF Len(audits) = 0 THEN "probe" ELSE "settled", !.sample = 1]
    /\ UNCHANGED visited

SiteNext == ProbeRequest \/ TlsInspect \/ Derive

\* A slip: the scores are compared, not what they cite or why they are missing.
verifyAuditScores(r) == LET a == deriveAssessment(r.evidence, r.gaps, site.scheme) IN
                        r.overall = a.overall /\ \A c \in DOMAIN a.categories : r.categories[c].score = a.categories[c].score

\* verifyAudit: categories and overall are derived again from the evidence.
verifyAudit(r) == LET a == deriveAssessment(r.evidence, r.gaps, site.scheme) IN
                  r.categories = a.categories /\ r.overall = a.overall

-----------------------------------------------------------------------------
(* Before and after.                                                       *)

compareAudits(base, cur) ==
    [delta |-> [c \in DOMAIN CATEGORY_WEIGHTS |-> cur.categories[c].score - base.categories[c].score],
     lost  |-> Live(base.categories) \ Live(cur.categories),
     both  |-> Live(base.categories) \cap Live(cur.categories),
     p95   |-> {[base |-> P95(base.evidence), cur |-> P95(cur.evidence)] :
                   x \in {r \in {1} : DOMAIN Totals(base.evidence) # {} /\ DOMAIN Totals(cur.evidence) # {}}},
     overall |-> cur.overall - base.overall]

\* The overall gain is not credited when a category measured before is
\* missing now.
Creditable(d) == d.lost = {}

\* met, of the three kinds of target; a metric has to be measured twice.
evaluatePayOnImprovement(d, t) ==
    CASE t.kind = "overall-score-gain"  -> Creditable(d) /\ d.overall >= t.need
      [] t.kind = "category-score-gain" -> t.category \in d.both /\ d.delta[t.category] >= t.need
      [] t.kind = "metric-drop-pct"     -> \E x \in d.p95 : x.base > 0 /\ (x.base - x.cur) * 100 >= t.need * x.base

verifyPayOnImprovement(met, t, base, cur) ==
    verifyAudit(base) /\ verifyAudit(cur) /\ met = evaluatePayOnImprovement(compareAudits(base, cur), t)

-----------------------------------------------------------------------------

\* A contract that asks for a gain and pays, pays for a site that got better.  On an overall
\* gain, some category measured both times scores higher, or one was measured
\* for the first time: never is it paid because a measurement dropped out and
\* left the rest to weigh more.  On a drop of p95, the performance score did
\* not fall.
PaidMeansImproved ==
    Len(audits) = 2 => \A t \in Targets :
        t.need > 0 /\ verifyPayOnImprovement(TRUE, t, audits[1], audits[2]) =>
            LET L(i) == Live(audits[i].categories)
                score(i, c) == audits[i].categories[c].score
            IN  CASE t.kind = "overall-score-gain" -> (\E c \in L(1) \cap L(2) : score(2, c) > score(1, c)) \/ L(2) \ L(1) # {}
                  [] t.kind = "category-score-gain" -> score(2, t.category) > score(1, t.category)
                  [] t.kind = "metric-drop-pct" -> score(2, "performance") >= score(1, "performance")

\* A category that could not be measured neither helps nor hurts: the
\* overall lies between the worst and the best of those that were.
OverallIsOfTheMeasured ==
    \A i \in DOMAIN audits : LET r == audits[i]  L == Live(r.categories) IN
        L # {} => /\ \E c \in L : r.categories[c].score <= r.overall
                  /\ \E c \in L : r.categories[c].score >= r.overall

\* The order of the samples does not matter, and a slower one never earns
\* more: an audit whose every sample is at least as slow as another's scores
\* no higher for performance.
SlowerNeverScoresHigher ==
    Len(audits) = 2 =>
        LET a == Totals(audits[1].evidence)  b == Totals(audits[2].evidence)
        IN  /\ DOMAIN a # {} /\ Cardinality(DOMAIN a) = Cardinality(DOMAIN b)
            /\ \E f \in [DOMAIN a -> DOMAIN b] : /\ \A k, l \in DOMAIN a : f[k] = f[l] => k = l
                                                 /\ \A k \in DOMAIN a : a[k] <= b[f[k]]
            =>
            audits[2].categories["performance"].score <= audits[1].categories["performance"].score

\* A report from which a measurement, or the note of a failed one, was taken
\* out is refused: each leaves its trace in a score, a citation or a reason.
\* The one thing that may go unnoticed is how many samples failed when all
\* of them did: the category then gives the reason of the first.
LossIsRefused ==
    \A n \in DOMAIN audits : LET r == audits[n] IN
        /\ \A i \in DOMAIN r.evidence : ~verifyAudit([r EXCEPT !.evidence = RemoveAt(@, i)])
        /\ \A i \in DOMAIN r.gaps :
              \/ ~verifyAudit([r EXCEPT !.gaps = RemoveAt(@, i)])
              \/ r.gaps[i] = "timing-sample" /\ r.categories["performance"].degraded /\ GapsOf(r.gaps, "timing-sample") > 1

\* A probe follows at most so many redirects, and sends no request to a host
\* that is not public, at whichever hop it turns up.
ProbeStaysOut == Len(visited) <= MAX_REDIRECTS /\ \A i \in DOMAIN visited : visited[i] = "public"
=============================================================================
