------------------------------- MODULE MCDesks -------------------------------
(***************************************************************************)
(* The specialists that research and report (dependency upgrades,          *)
(* compliance screening with its list cache, due diligence, site audits)   *)
(* and the desks that hand out sealed results (security audits,            *)
(* evaluations, attested data, sponsored posts, reviews and evaluations of *)
(* pull requests).  They share no state, so that one works at a time and   *)
(* the others rest.                                                        *)
(***************************************************************************)
EXTENDS DepUpgrade, ListCache, Screening, DueDiligence, SiteAudit,
        SecAudit, EvalBot, OracleDesk, SponsoredPost, ReviewBot, Evaluator, TLC

\* Dependency upgrades: two packages, one with a release candidate and a
\* version that does not parse.
V(a, b, c) == Release(a, b, c)
RangeOf(op, v) == <<<<[op |-> op, p |-> v]>>>>
Between(v, w) == <<<<[op |-> ">=", p |-> v], [op |-> "<", p |-> w]>>>>
MCPublished == <<{V(1, 0, 0), V(1, 1, 0), V(1, 2, 0), V(2, 0, 0), Unparseable,
                  [n |-> <<3, 0, 0>>, pre |-> <<<<1, 1>>, <<0, 1>>>>]},
                 {V(0, 0, 1), V(0, 0, 2), V(0, 1, 0)}>>
MCKnown == <<{[id |-> "A", range |-> RangeOf("<", V(1, 1, 0))], [id |-> "A", range |-> RangeOf("", V(1, 1, 0))], [id |-> "B", range |-> Between(V(1, 1, 0), V(1, 2, 0))]},
             {[id |-> "C", range |-> RangeOf("<=", V(0, 0, 1))]}>>
Dep(name, section, range, installed) == [name |-> name, section |-> section, range |-> range, installed |-> installed]
Node(deps, build, test) == [deps |-> deps, node |-> TRUE, build |-> build, test |-> test]
One  == Node(<<Dep(1, "dependencies", RangeOf("^", V(1, 0, 0)), NoVersion)>>, TRUE, TRUE)
Two  == Node(<<Dep(1, "dependencies", RangeOf("~", V(1, 0, 0)), V(1, 0, 0)), Dep(2, "devDependencies", RangeOf("", V(0, 0, 1)), NoVersion)>>,
             FALSE, TRUE)
Both == Node(<<Dep(1, "dependencies", RangeOf("^", V(1, 0, 0)), NoVersion), Dep(1, "devDependencies", RangeOf("^", V(1, 0, 0)), NoVersion)>>,
             TRUE, FALSE)
Fine == Node(<<Dep(1, "dependencies", RangeOf("^", V(1, 2, 0)), V(1, 2, 0)), Dep(2, "dependencies", RangeOf("*", V(0, 0, 0)), V(0, 0, 2))>>,
             TRUE, TRUE)
Bad  == Node(<<Dep(1, "dependencies", RangeOf("?", V(1, 0, 0)), NoVersion)>>, TRUE, TRUE)
NotNode == [One EXCEPT !.node = FALSE]
MCRepos == {One, Two, Both, Fine, Bad, NotNode}
MCUpgradeJobs == [kind : {"agent", "execute"}, repo : MCRepos, prefilter : BOOLEAN, nextMajor : BOOLEAN]

\* List cache: two requests, a second download address for the list proper.
MCFileUrls == [sdn |-> <<"s1", "s2">>, alt |-> <<"a1">>]

\* Screening: scores on both sides of each threshold, in thousandths; one of
\* them is rounded across the threshold of a match.
Name(full, core) == [full |-> full, core |-> core]
MCListEntries == {<<Name(800, 860), Name(900, 870)>>, <<Name(930, 930)>>, <<Name(880, 1000)>>,
                  <<Name(929, 929)>>}

\* Due diligence: documents at and beyond each rule's limit, and without the field.
Registry(dep, published, created, keepers, licence, repo) ==
    [deprecated |-> dep, publishAge |-> published, packageAge |-> created, maintainers |-> keepers, license |-> licence,
     repo |-> repo]
Repository(archived, pushed, stars, issues) == [archived |-> archived, pushAge |-> pushed, stars |-> stars, issues |-> issues]
Coin(rank, mcap, volume, fdv, people, commits, community, drawdown) ==
    [rank |-> rank, mcap |-> mcap, volume |-> volume, fdv |-> fdv, contributors |-> people, commits |-> commits,
     community |-> community, drawdown |-> drawdown]
MCDocuments ==
    [source \in {"npm-registry", "npm-downloads", "github-advisories", "github-repo", "coingecko-coin"} |->
        CASE source = "npm-registry" -> {Registry(FALSE, {730}, {90}, {2}, TRUE, TRUE), Registry(FALSE, {10}, {800}, {2}, TRUE, FALSE),
                                         Registry(TRUE, {731}, {89}, {1}, TRUE, TRUE), Registry(FALSE, {}, {}, {}, FALSE, TRUE)}
          [] source = "npm-downloads" -> {[downloads |-> d] : d \in {{999}, {1000}, {}}}
          [] source = "github-advisories" -> {[advisories |-> a] : a \in {<<>>, <<"low", "critical">>, <<"unknown">>}}
          [] source = "github-repo" -> {Repository(FALSE, {365}, {50}, {25}), Repository(TRUE, {366}, {50}, {26}),
                                        Repository(FALSE, {}, {}, {})}
          [] source = "coingecko-coin" -> {Coin({50}, {1000}, {10}, {2999}, {3}, {1}, {1000}, {69}),
                                           Coin({}, {1000}, {9}, {3000}, {2}, {0}, {999}, {70}),
                                           Coin({501}, {0}, {}, {}, {}, {}, {}, {90})}]

\* Site audits: a fast, a slow and a failing answer.
Reply(total, status, headers, zip, cache) ==
    [total |-> total, status |-> status, headers |-> headers, zip |-> zip, cache |-> cache]
MCAnswers == {Reply(15000, 200, {"hsts", "csp"}, TRUE, FALSE), Reply(90000, 200, {"frame"}, FALSE, TRUE),
              Reply(30000, 500, {}, FALSE, FALSE)}
Goal(kind, category, need) == [kind |-> kind, category |-> category, need |-> need]
MCTargets == {Goal("overall-score-gain", "", 10), Goal("category-score-gain", "tls", 10),
              Goal("metric-drop-pct", "", 20)}

\* Security audit: contents with a suppressed hit, one too big to scan, one
\* without markers, and a manifest with a vulnerable dependency.
At(rule, line) == [rule |-> rule, line |-> line]
Content(big, hits, marks) == [big |-> big, hits |-> hits, marks |-> marks]
OnLine1 == {At(r, 1) : r \in {"secret-assignment", "code-http-url", "sol-tx-origin", "sol-reentrancy"}}
Marked == Content(FALSE, OnLine1, {<<1, "secret-assignment">>, <<1, "sol-tx-origin">>})
Huge   == Content(TRUE, OnLine1, {<<1, "secret-assignment">>, <<1, "secret-file-committed">>})
Plain  == Content(FALSE, {At("secret-assignment", 2), At("sol-tx-origin", 2)}, {})
Manifest == Content(FALSE, {}, {})
Posted(path, c) == [path |-> path, content |-> c]
MCDepHits == (Manifest :> {At(DEP_RULE, 3)}) @@ (Plain :> {At(DEP_RULE, 4)})
Quick1 == <<Posted(".env", Marked), Posted("package.json", Manifest)>>
Quick2 == <<Posted("package.json", Huge), Posted(".env", Huge), Posted("C.sol", Marked)>>
Twice  == <<Posted("C.sol", Plain), Posted("C.sol", Marked)>>
MCAuditJobs ==
    [tier : {"quick"}, kind : {"dir", "posted"}, files : {Quick1, Quick2}]
    \cup [tier : {"quick"}, kind : {"posted"}, files : {Twice}]
    \cup [tier : {"deep"}, kind : {"repo"}, files : {<<Posted(".env", Marked)>>, <<Posted("C.sol", Marked)>>}]
MCEditContents == {Marked, Plain}
MCToolReports == {{"info"}, {"low"}, {"high", "info"}}

\* EvalBot: the rubrics of the gate, one with criteria for the judge, and one
\* that names a criterion twice.
ByJudge(id, points) == [id |-> id, kind |-> "subjective", weight |-> points]
Mixed == [criteria |-> <<Criterion("parses", 1), ByJudge("clear", 2), ByJudge("deep", 1)>>, threshold |-> 50, band |-> 5]
Doubled == [criteria |-> <<Criterion("parses", 1), Criterion("parses", 1)>>, threshold |-> 50, band |-> 0]
MCRubrics == {rubricForOutcome(TRUE), rubricForOutcome(FALSE), securityAuditEvaluationPolicy, Mixed, Doubled}
MCDeliverables == SUBSET {"parses", "substantive", "well-formed", "deterministic-coverage"}
MCJudgeScores == {0 - 5, 40, 101}

\* Oracle desk: two sources that agree, differ in the order of their keys,
\* answer with text or lack the field; a third is not public.
Value(text, shape) == [text |-> text, shape |-> shape]
Body(price) == [json |-> TRUE, at |-> [price |-> price, root |-> {Value("o1", "o")}]]
MCBodies == [u1 |-> {Body({Value("1", "1")}), Body({Value("ab", "o")}), [json |-> FALSE]},
             u2 |-> {Body({Value("1", "1")}), Body({Value("ba", "o")}), Body({})},
             u3 |-> {}]
Call(route, urls, selector, product) == [route |-> route, urls |-> urls, selector |-> selector, product |-> product]
MCOracleCalls == {Call("attest", <<"u1">>, "price", "any"), Call("consensus", <<"u1", "u2">>, "price", "any"),
                  Call("consensus", <<"u2", "u3">>, "price", "any"),
                  Call("data", <<"u2">>, "price", "preset"), Call("consensus", <<"u1">>, "price", "any"),
                  Call("attest", <<"u3">>, "price", "any"), Call("attest", <<"u1">>, "?", "any")}

\* Evaluator: the default branch has no tests, the first head does; the second
\* has no package.json, the third one that does not parse.
MCProject == [c \in 0 .. 3 |->
  [manifest |-> <<"ok", "ok", "none", "broken">>[c + 1],
   scripts |-> <<{"build"}, {"build", "test"}, {}, {}>>[c + 1], typescript |-> c = 0]]

\* A wallet is not looked up by name: one entry per list shows it.
OneForAWallet == subject.kind = "wallet" => \A i \in DOMAIN inputs : Len(inputs[i].entries) <= 1

VARIABLE working   \* which of them is at work

-----------------------------------------------------------------------------

RestUpgrade ==
    /\ job = [kind |-> "agent", repo |-> NotNode, prefilter |-> FALSE, nextMajor |-> FALSE]
    /\ up = [at |-> "rest", item |-> 0, text |-> <<>>, green |-> {}, cleaned |-> TRUE]
    /\ disk = <<>> /\ intel = [n \in DOMAIN Known |-> {}] /\ plan = <<>> /\ results = <<>> /\ sealed = {}
RestList ==
    /\ listClock = ListHorizon /\ issue = 2 + MaxIssues /\ stamps = 1 /\ cached = [u \in Urls |-> NoFile]
    /\ memo = NoMemo /\ loader = [l \in Loaders |-> GapLoad]
RestScreen ==
    subject = [kind |-> "entity", wallet |-> FALSE] /\ inputs = <<>> /\ screening = {}
RestDD   == dd = [at |-> "done", kind |-> "npm-package", next |-> 1] /\ items = <<>> /\ holes = {} /\ ddReport = {}
RestSite == /\ site = [at |-> "done", scheme |-> "https", hops |-> 0, sample |-> 1]
            /\ evidence = <<>> /\ gaps = <<>> /\ audits = <<>> /\ visited = <<>>

SpecialistsInit ==
      \/ working = "upgrade" /\ UpgradeInit /\ RestList /\ RestScreen /\ RestDD /\ RestSite
      \/ working = "list" /\ RestUpgrade /\ ListInit /\ RestScreen /\ RestDD /\ RestSite
      \/ working = "screen" /\ RestUpgrade /\ RestList /\ ScreenInit /\ OneForAWallet /\ RestDD /\ RestSite
      \/ working = "diligence" /\ RestUpgrade /\ RestList /\ RestScreen /\ DDInit /\ RestSite
      \/ working = "site" /\ RestUpgrade /\ RestList /\ RestScreen /\ RestDD /\ SiteInit

SpecialistsNext ==
      \/ working = "upgrade" /\ UpgradeNext /\ UNCHANGED <<listVars, screenVars, ddVars, siteVars>>
      \/ working = "list" /\ ListNext /\ UNCHANGED <<upgradeVars, screenVars, ddVars, siteVars>>
      \/ working = "screen" /\ ScreenNext /\ UNCHANGED <<upgradeVars, listVars, ddVars, siteVars>>
      \/ working = "diligence" /\ DDNext /\ UNCHANGED <<upgradeVars, listVars, screenVars, siteVars>>
      \/ working = "site" /\ SiteNext /\ UNCHANGED <<upgradeVars, listVars, screenVars, ddVars>>

specialistVars == <<upgradeVars, listVars, screenVars, ddVars, siteVars>>

RestSpecialists == RestUpgrade /\ RestList /\ RestScreen /\ RestDD /\ RestSite

-----------------------------------------------------------------------------

RestAudit  == aud = NoAudit /\ tree = <<>> /\ edits = MaxEdits /\ report = {}
RestEval   == evaljob = [at |-> "failed", rubric |-> Doubled, content |-> {}, scores |-> {}] /\ ruling = {} /\ Quiet
RestOracle == oracle = IdleDesk /\ chain = <<>> /\ charges = {} /\ answers = {} /\ asked = MaxOracleCalls
RestPost   == /\ store = [j \in PostJobs |-> {}] /\ account = <<>> /\ posting = IdlePost /\ waiting = <<>>
              /\ served = {} /\ calls = MaxCalls /\ postCrashes = MaxPostCrashes

RestReview == /\ bound = "none" /\ rail = [j \in ReviewJobs |-> "pay-dem"]
              /\ order = [j \in ReviewJobs |-> "failed"]
              /\ reviews = {} /\ postings = {} /\ anchorFailed = {} /\ excusedJobs = {}
              /\ attestation = [j \in ReviewJobs |-> {}]
              /\ attempt = [a \in Attempts |-> IdleAttempt]
              /\ reviewFaults = MaxReviewFaults /\ visitors = MaxVisitors

RestEvaluator == /\ head = MaxHead /\ evaluation = NoEvaluation /\ companions = {} /\ evaluated = {}
                 /\ workspaces = {} /\ cloneFailed = {} /\ withdrawn = {} /\ companionLost = FALSE
                 /\ evaluations = MaxEvaluations /\ evalFaults = MaxEvalFaults

DesksInit ==
      \/ working = "audit" /\ AuditInit /\ RestEval /\ RestOracle /\ RestPost /\ RestReview /\ RestEvaluator
      \/ working = "eval" /\ RestAudit /\ EvalInit /\ RestOracle /\ RestPost /\ RestReview /\ RestEvaluator
      \/ working = "oracle" /\ RestAudit /\ RestEval /\ OracleInit /\ RestPost /\ RestReview /\ RestEvaluator
      \/ working = "post" /\ RestAudit /\ RestEval /\ RestOracle /\ PostInit /\ RestReview /\ RestEvaluator
      \/ working = "review" /\ RestAudit /\ RestEval /\ RestOracle /\ RestPost /\ ReviewInit /\ RestEvaluator
      \/ working = "evaluator" /\ RestAudit /\ RestEval /\ RestOracle /\ RestPost /\ RestReview /\ EvaluatorInit

DesksNext ==
      \/ working = "audit" /\ AuditNext /\ UNCHANGED <<evalVars, oracleVars, postVars, reviewVars, evaluatorVars>>
      \/ working = "eval" /\ EvalNext /\ UNCHANGED <<auditVars, oracleVars, postVars, reviewVars, evaluatorVars>>
      \/ working = "oracle" /\ OracleNext /\ UNCHANGED <<auditVars, evalVars, postVars, reviewVars, evaluatorVars>>
      \/ working = "post" /\ PostNext /\ UNCHANGED <<auditVars, evalVars, oracleVars, reviewVars, evaluatorVars>>
      \/ working = "review" /\ ReviewNext /\ UNCHANGED <<auditVars, evalVars, oracleVars, postVars, evaluatorVars>>
      \/ working = "evaluator" /\ EvaluatorNext /\ UNCHANGED <<auditVars, evalVars, oracleVars, postVars, reviewVars>>

deskVars == <<auditVars, evalVars, oracleVars, postVars, reviewVars, evaluatorVars>>
RestDesks == RestAudit /\ RestEval /\ RestOracle /\ RestPost /\ RestReview /\ RestEvaluator

MCInit == (DesksInit /\ RestSpecialists) \/ (RestDesks /\ SpecialistsInit)
MCNext == /\ \/ DesksNext /\ UNCHANGED specialistVars
             \/ SpecialistsNext /\ UNCHANGED deskVars
          /\ UNCHANGED working
mcVars == <<deskVars, specialistVars, working>>

MCSpec == MCInit /\ [][MCNext]_mcVars

\* Requests of a list, and calls of a delivery, differ in nothing but names.
DeskSymmetry == Permutations(Loaders) \cup Permutations(Attempts)

-----------------------------------------------------------------------------
(* What the specialists and the desks promise.                             *)

\* What an upgrade desk hands over was tested as it was committed, mends what was
\* reported, and its re-runs agree with it.
UpgradesAreProven ==
    /\ GreenIsProven /\ EveryReportVerifies /\ CommittedWasTested /\ PlanAvoidsReported
    /\ PlanGoesUp /\ WorkspaceRemoved /\ RangesAreNpms /\ ReRunsJudged

\* What the specialists report from is what they were to look at: the lists a
\* request screens against are whole and recent, however loads overlap, and a
\* due-diligence report hides no source that failed and no serious fact that one
\* stated.
EvidenceIsSound ==
    /\ ServedIsRecent /\ ServedIsWhole
    /\ CleanMeansLooked /\ StoppersStop /\ FindingsCiteTheirSource

\* What they compute from it is what a verifier recomputes: a screening, whatever
\* is truncated or rounded, and the scores of a site audit, in which every loss
\* shows.
ScoresAreSound ==
    /\ VerifiesUnlessRounded /\ TruncationKeepsVerdict /\ SingleEditIsCaught /\ PepNeverBlocksAlone
    /\ JaroWinklerIsAScore
    /\ PaidMeansImproved /\ OverallIsOfTheMeasured /\ SlowerNeverScoresHigher /\ LossIsRefused
    /\ ProbeStaysOut

\* A sealed security audit verifies, and editing what it is of, or what it says,
\* is refused.
AuditsVerify ==
    /\ EveryAuditVerifies /\ FindingCitesItsContent /\ NothingLost /\ DeepEditRefused
    /\ VerdictIsMechanical

\* A ruling verifies, its gate holds whatever a judge scores, and a fork of the
\* ledger is noticed.
RulingsAreSound == EveryRulingVerifies /\ GateHolds /\ ForkIsNoticed

\* What the oracle sells was observed, and what a sponsor paid for was posted,
\* once.
SalesAreSound ==
    /\ EverySaleIsObserved /\ ConsensusIsAgreement /\ AnchorIsOfTheBody
    /\ PostedOnce /\ DeliveredIsPosted /\ PostIsReserved

\* A review that was paid for stands on the pull request, once, and an evaluation
\* is of checks that ran.
ReviewsAreSound ==
    CompletedMeansDelivered /\ DeliveryVerifies /\ ReviewedOnce /\ EvaluationIsSound
=============================================================================
