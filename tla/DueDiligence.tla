---------------------------- MODULE DueDiligence ----------------------------
(***************************************************************************)
(* The due-diligence researcher: it fetches the sources of a subject one   *)
(* after the other (dd-researcher/evidence.ts), derives findings from what *)
(* each said (findings.ts) and recommends (researcher.ts); a third party   *)
(* verifies the report (report.ts).  A field of a source's document is a   *)
(* set: empty when the document does not carry it.                         *)
(***************************************************************************)
EXTENDS Integers, Sequences, FiniteSets

CONSTANTS SubjectKindsDD,   \* "npm-package", "crypto-token"
          Documents         \* source -> the documents it may answer with

VARIABLES dd,      \* control: [at, kind, next]; next is the source to ask
          items,   \* the evidence: [source, ok, doc]
          holes,   \* sources that could not be reached
          ddReport \* {} or {the report}

ddVars == <<dd, items, holes, ddReport>>

DDInit ==
    /\ \E k \in SubjectKindsDD : dd = [at |-> "gather", kind |-> k, next |-> 1]
    /\ items = <<>> /\ holes = {} /\ ddReport = {}

SourcesOf(kind) == IF kind = "npm-package" THEN <<"npm-registry", "npm-downloads", "github-advisories", "github-repo">>
                   ELSE <<"coingecko-coin">>

-----------------------------------------------------------------------------
(* Evidence.                                                               *)

\* The repository is known from the registry's document only.
RegistryRepo == \E i \in DOMAIN items : items[i].source = "npm-registry" /\ items[i].ok /\ items[i].doc.repo

\* collect: a source that does not answer is a gap; one that answers with an
\* error, or with a body of another shape, is evidence of that.
Collect ==
    /\ dd.at = "gather"
    /\ LET source == SourcesOf(dd.kind)[dd.next]
           last == dd.next = Len(SourcesOf(dd.kind))
           Item(ok, doc) == items' = Append(items, [source |-> source, ok |-> ok, doc |-> doc]) /\ UNCHANGED holes
       IN  /\ IF source = "github-repo" /\ ~RegistryRepo THEN UNCHANGED <<items, holes>>
              ELSE \/ holes' = holes \cup {source} /\ UNCHANGED items
                   \/ Item(FALSE, [unavailable |-> TRUE])
                   \/ \E d \in Documents[source] : Item(TRUE, d)
           /\ dd' = [dd EXCEPT !.at = IF last THEN "derive" ELSE "gather", !.next = IF last THEN @ ELSE @ + 1]
    /\ UNCHANGED ddReport

-----------------------------------------------------------------------------
(* Findings.                                                               *)

Flag(rule, sev) == [rule |-> rule, sev |-> sev]
Graded(rule, field, cautious) == {Flag(rule, IF v \in cautious THEN "caution" ELSE "info") : v \in field}

unavailableFinding(source) == {Flag(source, "caution")}

npmRegistryRules(d) ==
    (IF d.deprecated THEN {Flag("npm-deprecated", "red-flag")} ELSE {})
    \cup Graded("npm-publish-age", d.publishAge, {v \in d.publishAge : v > 730})
    \cup Graded("npm-package-age", d.packageAge, {v \in d.packageAge : v < 90})
    \cup Graded("npm-single-maintainer", d.maintainers, {v \in d.maintainers : v <= 1})
    \cup {Flag("npm-license", IF d.license THEN "info" ELSE "red-flag")}
    \cup (IF d.repo THEN {} ELSE {Flag("npm-no-repo", "caution")})

npmDownloadsRules(d) == Graded("npm-downloads", d.downloads, {v \in d.downloads : v < 1000})

SEVERITY_RANK == [critical |-> 4, high |-> 3, medium |-> 2, low |-> 1, unknown |-> 0]

ASSUME DocumentsAssumption ==
    /\ \A d \in Documents["npm-registry"] : {d.deprecated, d.license, d.repo} \subseteq BOOLEAN
    /\ \A d \in Documents["github-advisories"] : d.advisories \in Seq(DOMAIN SEVERITY_RANK)
    /\ \A d \in Documents["github-repo"] : d.archived \in BOOLEAN
    /\ \A d \in Documents["coingecko-coin"] : d.drawdown \subseteq Int

\* The worst of the advisories, of all that were answered: the report keeps
\* five.  An unknown severity ranks lowest.
worstSeverity(advisories) ==
    LET R == {SEVERITY_RANK[advisories[i]] : i \in DOMAIN advisories} IN CHOOSE r \in R : \A x \in R : x <= r

githubAdvisoryRules(d) ==
    {Flag("gh-advisories", IF d.advisories = <<>> THEN "info"
                        ELSE IF worstSeverity(d.advisories) >= 3 THEN "red-flag" ELSE "caution")}

githubRules(d) ==
    (IF d.archived THEN {Flag("gh-archived", "red-flag")} ELSE {})
    \cup Graded("gh-push-age", d.pushAge, {v \in d.pushAge : v > 365})
    \cup {Flag("gh-issue-ratio", IF s >= 50 /\ 2 * n > s THEN "caution" ELSE "info") : s \in d.stars, n \in d.issues}

\* Null rank counts as the long tail; ratios over the market capitalisation
\* where it is known and not zero.
coingeckoRules(d) ==
    {Flag("cg-rank", IF d.rank = {} \/ \E r \in d.rank : r > 500 THEN "caution" ELSE "info")}
    \cup {Flag("cg-liquidity", IF 100 * v < m THEN "caution" ELSE "info") : v \in d.volume, m \in d.mcap \ {0}}
    \cup {Flag("cg-supply-overhang", IF f >= 3 * m THEN "caution" ELSE "info") : f \in d.fdv, m \in d.mcap \ {0}}
    \cup Graded("cg-dev-contributors", d.contributors, {v \in d.contributors : v < 3})
    \cup Graded("cg-dev-activity", d.commits, {v \in d.commits : v = 0})
    \cup {Flag("cg-community", IF d.community # {} /\ \A v \in d.community : v < 1000 THEN "caution" ELSE "info")}
    \cup {Flag("cg-drawdown", IF v >= 90 THEN "red-flag" ELSE IF v >= 70 THEN "caution" ELSE "info") : v \in d.drawdown}

RulesOf(item) ==
    IF ~item.ok THEN unavailableFinding(item.source)
    ELSE CASE item.source = "npm-registry"      -> npmRegistryRules(item.doc)
           [] item.source = "npm-downloads"     -> npmDownloadsRules(item.doc)
           [] item.source = "github-advisories" -> githubAdvisoryRules(item.doc)
           [] item.source = "github-repo"       -> githubRules(item.doc)
           [] item.source = "coingecko-coin"    -> coingeckoRules(item.doc)

Cited(i) == i

deriveFindings == UNION {{[rule |-> f.rule, sev |-> f.sev, cites |-> Cited(i)] : f \in RulesOf(items[i])} : i \in DOMAIN items}

\* deterministicSummary; the gaps get a sentence, not a finding.
recommendation(findings) ==
    LET Any(s) == \E f \in findings : f.sev = s IN
    IF Any("red-flag") THEN "do-not-proceed" ELSE IF Any("caution") THEN "review" ELSE "clean"

Research ==
    /\ dd.at = "derive"
    /\ ddReport' = {[evidence |-> items, findings |-> deriveFindings, gaps |-> holes,
                     recommend |-> recommendation(deriveFindings)]}
    /\ dd' = [dd EXCEPT !.at = "done"]
    /\ UNCHANGED <<items, holes>>

DDNext == Collect \/ Research

\* Every finding cites evidence that is in the report.
verifyDDReport(r) == \A f \in r.findings : f.cites \in DOMAIN r.evidence

-----------------------------------------------------------------------------

\* "No red flags or cautions" means that somebody looked: with no gap noted,
\* every source of the subject's panel answered, the repository among them,
\* whichever source failed and however the repository was to be found.
CleanMeansLooked ==
    \A r \in ddReport : r.recommend = "clean" /\ r.gaps = {} =>
        \A k \in DOMAIN SourcesOf(dd.kind) :
            \E i \in DOMAIN r.evidence : r.evidence[i].source = SourcesOf(dd.kind)[k] /\ r.evidence[i].ok

\* A fact that should stop a buyer stops it: a serious advisory, wherever it
\* stands in the list, an archived repository, a package without a licence or
\* deprecated is never recommended, whatever the other sources said.
StoppersStop ==
    \A r \in ddReport : r.recommend # "do-not-proceed" => \A i \in DOMAIN r.evidence :
        r.evidence[i].ok => LET d == r.evidence[i].doc IN
            CASE r.evidence[i].source = "npm-registry" -> d.license /\ ~d.deprecated
              [] r.evidence[i].source = "github-advisories" -> \A k \in DOMAIN d.advisories : d.advisories[k] \notin {"critical", "high"}
              [] r.evidence[i].source = "github-repo" -> ~d.archived
              [] r.evidence[i].source = "coingecko-coin" -> \A v \in d.drawdown : v < 90
              [] OTHER -> TRUE

\* A report verifies, and each finding cites the evidence its rule read, also
\* when gaps left the evidence shorter than the panel.
FindingsCiteTheirSource ==
    \A r \in ddReport : verifyDDReport(r) /\ \A f \in r.findings :
        Flag(f.rule, f.sev) \in RulesOf(r.evidence[f.cites])
=============================================================================
