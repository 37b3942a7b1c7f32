----------------------------- MODULE DepUpgrade -----------------------------
(***************************************************************************)
(* The dependency-upgrade desk: the planner (roster/dep-upgrade/           *)
(* planner.ts), the agent that verifies one upgrade at a time and opens a  *)
(* pull request (apply-verify.ts, agent.ts), and the executor that proves  *)
(* the suite green in a sandbox and seals a report a third party verifies  *)
(* (execute.ts, src/agents/checks.ts).  A manifest is the sequence of its  *)
(* declarations [name, section, range, installed]; hashes are injective,   *)
(* so a hash is the value it is taken of.                                  *)
(***************************************************************************)
EXTENDS Semver

CONSTANTS Repos,          \* repositories: [deps, node, test, build]
          Published,      \* package name (a number, in locale order) -> versions
          Known,          \* package name -> its advisories [id, range]
          UpgradeJobs     \* the jobs to run: [kind, repo, prefilter, nextMajor]

Declarations ==
    [name : DOMAIN Published, section : {"dependencies", "devDependencies"},
     range : Seq(Seq([op : STRING, p : [n : Seq(Int), pre : Seq({0, 1} \X Nat)]])),
     installed : Versions \cup {NoVersion}]

ASSUME UpgradeAssumption ==
    /\ \A j \in UpgradeJobs : j.kind \in {"agent", "execute"} /\ j.repo \in Repos
    /\ \A r \in Repos : r.deps \in Seq(Declarations)
    /\ DOMAIN Known = DOMAIN Published /\ DOMAIN Published \subseteq Nat
    /\ \A n \in DOMAIN Published : IsFiniteSet(Published[n]) /\ Published[n] \subseteq Versions \cup {Unparseable}

VARIABLES job,       \* the job in hand
          up,        \* its control state, the item in hand and what was verified
          disk,      \* package.json of the workspace
          intel,     \* the advisories the registry answered
          plan,      \* the upgrade items, and the text verified so far
          results,   \* per item of the agent, per check of the executor
          sealed     \* the delivered pull request or report

upgradeVars == <<job, up, disk, intel, plan, results, sealed>>

UpgradeInit ==
    /\ job \in UpgradeJobs
    /\ up = [at |-> "fetch", item |-> 0, text |-> <<>>, green |-> {}, cleaned |-> FALSE]
    /\ disk = job.repo.deps
    /\ intel = [n \in DOMAIN Known |-> {}]
    /\ plan = <<>>
    /\ results = <<>>
    /\ sealed = {}

Goto(at) == up' = [up EXCEPT !.at = at]
\* The executor works inside try ... finally: its workspace is removed
\* however it ends.
Ended(at) == up' = [up EXCEPT !.at = at, !.cleaned = (job.kind = "execute")]
\* The first item, on the manifest as it was fetched.
StartItems(at) == up' = [up EXCEPT !.at = at, !.item = 1, !.text = disk]

-----------------------------------------------------------------------------
(* The planner.                                                            *)

preserveRangeStyle(range, target) ==
    LET op == IF range # <<>> /\ range[1] # <<>> THEN range[1][1].op ELSE "" IN
    <<<<[op |-> IF op \in {"^", "~"} THEN op ELSE "", p |-> target]>>>>

Stable(name) == {v \in Published[name] : isStable(v)}

\* The installed version when it satisfies the declared range, else the
\* lowest published one that does.
resolveCurrentVersion(dep) ==
    IF dep.installed # NoVersion /\ satisfies(dep.installed, dep.range) THEN dep.installed
    ELSE minSatisfying(Stable(dep.name), dep.range)

clearsAll(v, advisories) == \A a \in advisories : ~satisfies(v, a.range)

Nearest(S) == CHOOSE v \in S : \A w \in S : ~Below(w, v)
Topmost(S) == CHOOSE v \in S : \A w \in S : ~Below(v, w)

SecurityTarget(current, stable, advisories) ==
    LET candidates == {v \in stable : Below(current, v) /\ clearsAll(v, advisories)}
        sameMajor  == {v \in candidates : majorOf(v) = majorOf(current)}
    IN  IF candidates = {} THEN NoVersion ELSE IF sameMajor # {} THEN Nearest(sameMajor) ELSE Nearest(candidates)

Item(dep, kind, current, target, ids) ==
    [name |-> dep.name, section |-> dep.section, kind |-> kind, current |-> current, target |-> target,
     range |-> preserveRangeStyle(dep.range, target), ids |-> ids,
     breaking |-> kind = "next-major" \/ majorOf(target) # majorOf(current)]

\* The items of one declaration; none for what the plan calls unactionable.
DepItems(dep, advisories, nextMajor) ==
    LET stable  == Stable(dep.name)
        current == resolveCurrentVersion(dep)
        active  == {a \in advisories : satisfies(current, a.range)}
        secure  == SecurityTarget(current, stable, advisories)
        latest  == maxSatisfying(stable, dep.range)
        top     == Topmost(stable)
    IN  IF current = NoVersion THEN {}
        ELSE IF active # {}
             THEN IF secure = NoVersion THEN {}
                  ELSE {Item(dep, "security", current, secure, {a.id : a \in active})}
        ELSE (IF Below(current, latest) /\ clearsAll(latest, advisories)
              THEN {Item(dep, "outdated", current, latest, {})} ELSE {})
             \cup
             (IF nextMajor /\ stable # {} /\ majorOf(top) > majorOf(current) /\ clearsAll(top, advisories)
              THEN {Item(dep, "next-major", current, top, {})} ELSE {})

PlanItems(deps, advisories, nextMajor) ==
    UNION {DepItems(deps[i], advisories[deps[i].name], nextMajor) : i \in DOMAIN deps}

\* Security first, then outdated, then next majors, by name, as declared.
Rank(it) == CASE it.kind = "security" -> 1 [] it.kind = "outdated" -> 2 [] it.kind = "next-major" -> 3
Earlier(a, b) ==
    \/ Rank(a) < Rank(b)
    \/ Rank(a) = Rank(b) /\ a.name < b.name
    \/ Rank(a) = Rank(b) /\ a.name = b.name /\ a.section = "dependencies" /\ b.section = "devDependencies"

\* The items in that order (the one sequence in the set).
buildPlan(items) ==
    {s \in [1 .. Cardinality(items) -> items] : \A i \in DOMAIN s : \A j \in 1 .. i - 1 : Earlier(s[j], s[i])}

\* applyItemToPackageJson.
Applied(text, it) ==
    [i \in DOMAIN text |-> IF text[i].name = it.name /\ text[i].section = it.section
                           THEN [text[i] EXCEPT !.range = it.range] ELSE text[i]]

AppliedAll(text, items) ==
    LET after[k \in 0 .. Len(items)] == IF k = 0 THEN text ELSE Applied(after[k - 1], items[k])
    IN  after[Len(items)]

-----------------------------------------------------------------------------
(* Registry and repository.                                                *)

\* fetchRef may throw before there is anything to clean up; the executor asks
\* for a sandbox and for a package.json before anything else.
Fetch ==
    /\ up.at = "fetch"
    /\ \/ Goto("unfetched")
       \/ job.kind = "agent" /\ Goto("intel")
       \/ job.kind = "execute" /\ Goto("available")
    /\ UNCHANGED <<job, disk, intel, plan, results, sealed>>

\* The registry's answer for the queried versions: the bulk endpoint filters
\* by version, a FakeRegistry does not.
getAdvisories(name, versions) ==
    {a \in Known[name] : ~job.prefilter \/ \E v \in versions : satisfies(v, a.range)}

Current(name) == {resolveCurrentVersion(disk[i]) : i \in {k \in DOMAIN disk : disk[k].name = name}} \ {NoVersion}

\* gatherIntel and buildPlan.  An unreadable range throws out of the whole
\* run.
Plan ==
    /\ up.at = "intel"
    /\ \/ Ended("thrown") /\ UNCHANGED <<intel, plan>>
       \/ /\ \A i \in DOMAIN disk : Readable(disk[i].range)
          /\ intel' = [n \in DOMAIN Known |-> IF Current(n) = {} THEN {} ELSE getAdvisories(n, Current(n))]
          /\ LET items == PlanItems(disk, intel', job.nextMajor /\ job.kind = "agent")
             IN  \E p \in buildPlan(IF job.kind = "agent" THEN items ELSE {it \in items : it.kind = "security"}) :
                    /\ plan' = p
                    /\ StartItems(IF p # <<>> THEN "apply" ELSE IF job.kind = "agent" THEN "done" ELSE "clean")
    /\ UNCHANGED <<job, disk, results, sealed>>

-----------------------------------------------------------------------------
(* The agent: applyAndVerify and the pull request.                         *)

AgentApply ==
    /\ job.kind = "agent" /\ up.at = "apply"
    /\ disk' = Applied(up.text, plan[up.item])
    /\ Goto("verify")
    /\ UNCHANGED <<job, intel, plan, results, sealed>>

\* The item is done: text goes on, and green remembers what both commands
\* passed on.
NextItem(text, ok) ==
    /\ up' = [up EXCEPT !.text = text, !.item = up.item + 1,
                        !.green = IF ok THEN up.green \cup {disk} ELSE up.green,
                        !.at = IF up.item < Len(plan) THEN "apply" ELSE "deliver"]
    /\ results' = Append(results, [item |-> plan[up.item], applied |-> ok])

\* A slip: a red item is left in the workspace.
AgentVerifyKeeps ==
    /\ job.kind = "agent" /\ up.at = "verify"
    /\ \E ok \in BOOLEAN : NextItem(disk, ok)
    /\ UNCHANGED <<job, disk, intel, plan, sealed>>

\* npm install, then npm test: the first red one restores the manifest the
\* item started from.
AgentVerify ==
    /\ job.kind = "agent" /\ up.at = "verify"
    /\ \/ NextItem(disk, TRUE) /\ UNCHANGED disk
       \/ NextItem(up.text, FALSE) /\ disk' = up.text
    /\ UNCHANGED <<job, intel, plan, sealed>>

\* getRepo, createBranch, commitFiles and openPR, each of which may throw
\* and leave the branch or the commit behind.
AgentDeliver ==
    /\ job.kind = "agent" /\ up.at = "deliver"
    /\ IF \A i \in DOMAIN results : ~results[i].applied
       THEN Goto("done") /\ UNCHANGED sealed
       ELSE \/ Goto("thrown") /\ UNCHANGED sealed
            \/ \E pr \in BOOLEAN : /\ sealed' = {[manifest |-> up.text, opened |-> pr]}
                                   /\ Goto(IF pr THEN "done" ELSE "thrown")
    /\ UNCHANGED <<job, disk, intel, plan, results>>

-----------------------------------------------------------------------------
(* The executor.                                                           *)

combineExecVerdict(sandbox, upgraded, checks, cleared) ==
    CASE ~sandbox -> "indeterminate"
      [] sandbox /\ upgraded = 0 -> "no-advisories"
      [] OTHER -> IF checks = <<>> \/ (\E i \in DOMAIN checks : ~checks[i].passed) \/ ~cleared THEN "upgrade-breaks-suite"
                  ELSE IF \E i \in DOMAIN checks : checks[i].name = "test" THEN "upgraded-green"
                  ELSE "upgraded-untested"

Seal(sandbox, after, text, checks, still, cleared) ==
    LET core == [sandbox |-> sandbox, before |-> [i \in DOMAIN after |-> after[i].current],
                 after |-> after, patch |-> [before |-> job.repo.deps, after |-> text],
                 patchHash |-> [before |-> job.repo.deps, after |-> text],
                 checks |-> checks, cleared |-> cleared, still |-> still,
                 verdict |-> combineExecVerdict(sandbox, Len(after), checks, cleared)]
    IN  [core |-> core, hash |-> core]

\* The three reports that end the job before anything is installed.
ExecAvailable ==
    /\ job.kind = "execute" /\ up.at \in {"available", "clean"}
    /\ \/ /\ up.at = "available"
          /\ sealed' = {Seal(FALSE, <<>>, job.repo.deps, <<>>, {}, FALSE)} /\ Ended("done")
       \/ /\ up.at = "available" /\ ~job.repo.node
          /\ sealed' = {Seal(TRUE, <<>>, job.repo.deps, <<>>, {}, TRUE)} /\ Ended("done")
       \/ up.at = "available" /\ job.repo.node /\ Goto("intel") /\ UNCHANGED sealed
       \/ up.at = "clean" /\ sealed' = {Seal(TRUE, <<>>, job.repo.deps, <<>>, {}, TRUE)} /\ Ended("done")
    /\ UNCHANGED <<job, disk, intel, plan, results>>

ExecApply ==
    /\ job.kind = "execute" /\ up.at = "apply"
    /\ disk' = AppliedAll(disk, plan)
    /\ Goto("install")
    /\ UNCHANGED <<job, intel, plan, results, sealed>>

\* planChecks: which checks a node project has.
Planned == (IF job.repo.build THEN <<"build">> ELSE <<>>) \o (IF job.repo.test THEN <<"test">> ELSE <<>>)

\* npm ci, or npm install when that is red; a red install skips the rest.  A
\* sandbox that has gone away throws.
ExecInstall ==
    /\ job.kind = "execute" /\ up.at = "install"
    /\ \/ Ended("thrown") /\ UNCHANGED results
       \/ \E ok \in BOOLEAN : /\ results' = <<[name |-> "install", passed |-> ok]>>
                              /\ Goto(IF ok /\ Planned # <<>> THEN "checks" ELSE "rescan")
    /\ UNCHANGED <<job, disk, intel, plan, sealed>>

ExecCheck ==
    /\ job.kind = "execute" /\ up.at = "checks"
    /\ \/ Ended("thrown") /\ UNCHANGED results
       \/ \E ok \in BOOLEAN : /\ results' = Append(results, [name |-> Planned[Len(results)], passed |-> ok])
                              /\ Goto(IF Len(results) < Len(Planned) THEN "checks" ELSE "rescan")
    /\ UNCHANGED <<job, disk, intel, plan, sealed>>

BeforeIds == UNION {plan[i].ids : i \in DOMAIN plan}
TargetOf(name) == LET i == CHOOSE k \in DOMAIN plan : plan[k].name = name
                                   /\ \A l \in DOMAIN plan : plan[l].name = name => l <= k
                  IN  plan[i].target

\* reScanCleared: the registry is asked again for the chosen versions; an
\* advisory is held against the last one chosen of its package, and only
\* those of the first look count.
Chosen(name) == {it.target : it \in {x \in Elements(plan) : x.name = name}}
reScanCleared ==
    LET Left(n) == {a \in getAdvisories(n, Chosen(n)) : satisfies(TargetOf(n), a.range)} IN
    {a.id : a \in UNION {Left(it.name) : it \in Elements(plan)}} \cap BeforeIds

\* The registry may have learned in between that an advisory also covers the
\* target.
ExecRescan ==
    /\ job.kind = "execute" /\ up.at = "rescan"
    /\ \/ Ended("thrown") /\ UNCHANGED sealed
       \/ \E extended \in SUBSET BeforeIds :
             LET still == reScanCleared \cup extended IN
             sealed' = {Seal(TRUE, plan, disk, results, still, still = {})} /\ Ended("done")
    /\ UNCHANGED <<job, disk, intel, plan, results>>

\* verifyExecReport, from the report alone.
verifyExecReport(r) ==
    LET c == r.core
        allPassed == c.checks # <<>> /\ \A i \in DOMAIN c.checks : c.checks[i].passed
        Green(n)  == \E i \in DOMAIN c.checks : c.checks[i].name = n /\ c.checks[i].passed
        cleared   == c.cleared /\ c.still = {}
        decl(d)   == LET at(s) == {i \in DOMAIN c.patch.after : c.patch.after[i].name = d.name /\ c.patch.after[i].section = s}
                         here  == IF at("dependencies") # {} THEN at("dependencies") ELSE at("devDependencies")
                     IN  {c.patch.after[i].range : i \in here}
    IN  /\ c.patchHash = c.patch /\ r.hash = c
        /\ \A i \in DOMAIN c.after : \E range \in decl(c.after[i]) :
              \E g \in Elements(range) : \E t \in Elements(g) : t.p = c.after[i].target
        /\ CASE c.verdict = "indeterminate" -> ~c.sandbox /\ c.after = <<>> /\ c.checks = <<>>
             [] c.verdict = "no-advisories" -> c.after = <<>> /\ c.checks = <<>>
             [] c.verdict = "upgraded-green" ->
                   c.after # <<>> /\ cleared /\ allPassed /\ Green("install") /\ Green("test")
             [] c.verdict = "upgraded-untested" ->
                   c.after # <<>> /\ cleared /\ allPassed /\ Green("install") /\ ~Green("test")
             [] c.verdict = "upgrade-breaks-suite" -> c.after # <<>> /\ ~(allPassed /\ cleared)

-----------------------------------------------------------------------------
(* Adjudication of independent re-runs; an artifact is [verdict, checks],   *)
(* its checks a function from check names to normalised output hashes.      *)

GATING_CHECKS == {"install", "build", "test", "typecheck"}

hashOfCheck(a, name) == IF name \in DOMAIN a.checks THEN a.checks[name] ELSE "<absent>"

\* The first of the most frequent fingerprints.
PluralityOf(fps) ==
    LET Count(f) == Cardinality({i \in DOMAIN fps : fps[i] = f})
        best == CHOOSE i \in DOMAIN fps : /\ \A j \in DOMAIN fps : Count(fps[j]) <= Count(fps[i])
                                          /\ \A j \in 1 .. i - 1 : Count(fps[j]) < Count(fps[i])
    IN  fps[best]

compareReRuns(arts) ==
    LET names == GATING_CHECKS \cap UNION {DOMAIN arts[i].checks : i \in DOMAIN arts}
        verdictAgree == \A i \in DOMAIN arts : arts[i].verdict = arts[1].verdict
        agreed(n) == \A i \in DOMAIN arts : hashOfCheck(arts[i], n) # "<absent>"
                                           /\ hashOfCheck(arts[i], n) = hashOfCheck(arts[1], n)
        fps == [i \in DOMAIN arts |-> <<arts[i].verdict, [n \in names |-> hashOfCheck(arts[i], n)]>>]
        divergent == IF arts = <<>> THEN {} ELSE {i \in DOMAIN arts : fps[i] # PluralityOf(fps)}
    IN  [agree |-> arts # <<>> /\ verdictAgree /\ (\A n \in names : agreed(n)) /\ divergent = {},
         divergent |-> divergent]

-----------------------------------------------------------------------------

UpgradeNext == \/ Fetch \/ Plan \/ AgentApply \/ AgentVerify \/ AgentDeliver
               \/ ExecAvailable \/ ExecApply \/ ExecInstall \/ ExecCheck \/ ExecRescan

-----------------------------------------------------------------------------
(* Properties.                                                             *)

\* A package that is declared in both sections has one range in them.  The
\* executor's second look and its verifier know a package by its name alone, so
\* that of two ranges with different targets they check one for both.
OneRange(deps) == \A i, k \in DOMAIN deps : deps[i].name = deps[k].name =>
                      deps[i].range = deps[k].range /\ deps[i].installed = deps[k].installed

\* A report the executor seals passes the third party's verification, which
\* derives the verdict from the report alone: the two computations agree on
\* every mix of red, green and missing checks and of advisories that come
\* back at the second look.
EveryReportVerifies == job.kind = "execute" /\ OneRange(job.repo.deps) => \A r \in sealed : verifyExecReport(r)

\* upgraded-green is earned: the suite ran green on the very manifest the
\* patch hands over, and no advisory the job set out to clear reaches a
\* version it chose, under whatever ranges the registry lists its id.
GreenIsProven ==
    job.kind = "execute" /\ OneRange(job.repo.deps) => \A r \in sealed : r.core.verdict = "upgraded-green" =>
        /\ r.core.patch.after = disk
        /\ \A c \in {"install", "test"} : [name |-> c, passed |-> TRUE] \in Elements(results)
        /\ \A it \in Elements(plan) : \A a \in Known[it.name] : a.id \in it.ids => ~satisfies(it.target, a.range)

\* The manifest the agent commits is one on which npm install and npm test
\* both passed, exactly as it stands, and it is what the workspace is left
\* with: what an item that went red wrote is in neither.
CommittedWasTested ==
    job.kind = "agent" => \A pr \in sealed : pr.manifest \in up.green /\ pr.manifest = disk

\* Every item of a plan goes up, to a release, and the range it writes
\* admits the version it names.
PlanGoesUp ==
    \A it \in Elements(plan) : Below(it.current, it.target) /\ isStable(it.target) /\ satisfies(it.target, it.range)

\* The plan never moves a dependency into an advisory the registry reported
\* for it.
PlanAvoidsReported ==
    \A it \in Elements(plan) : clearsAll(it.target, intel[it.name])

\* The workspace the executor fetched is removed however the job ends.
WorkspaceRemoved == job.kind = "execute" /\ up.at \in {"done", "thrown"} => up.cleaned

\* The caret and tilde ranges admit what npm's do, for releases.
RangesAreNpms ==
    up.at = "fetch" => \A p \in {[n |-> <<a, b, c>>, pre |-> <<>>] : a \in 0 .. 1, b \in {X, 0, 1}, c \in {X, 0, 1}} :
        p.n[2] # X \/ p.n[3] = X =>
        \A v \in {Release(a, b, c) : a, b, c \in 0 .. 2} :
            /\ satisfies(v, <<<<[op |-> "^", p |-> p]>>>>) <=> CaretAdmits(v, p)
            /\ satisfies(v, <<<<[op |-> "~", p |-> p]>>>>) <=> TildeAdmits(v, p)

ReRunArtifacts == [verdict : {"upgraded-green", "upgrade-breaks-suite"},
                   checks : {<<>>} \cup UNION {[D -> {"h1", "h2"}] : D \in (SUBSET {"test", "lint"}) \ {{}}}]
ReRuns == {<<a>> : a \in ReRunArtifacts} \cup {<<a, b>> : a, b \in ReRunArtifacts}
          \cup {<<a, b, c>> : a, b, c \in {x \in ReRunArtifacts : "lint" \notin DOMAIN x.checks}}
\* Two of them say the same of everything that gates.
SameReRun(arts, i, j) ==
    /\ arts[i].verdict = arts[j].verdict
    /\ \A n \in GATING_CHECKS : hashOfCheck(arts[i], n) = hashOfCheck(arts[j], n)

\* Independent re-runs agree exactly when no two of them differ in a verdict
\* or a gating check, and a re-run that more than half of them match is
\* never the one called divergent.
ReRunsJudged ==
    up.at = "fetch" => \A arts \in ReRuns :
        LET r == compareReRuns(arts)
        IN  /\ r.agree <=> \A i, j \in DOMAIN arts : SameReRun(arts, i, j)
            /\ \A i \in DOMAIN arts : 2 * Cardinality({j \in DOMAIN arts : SameReRun(arts, i, j)}) > Len(arts) => i \notin r.divergent
=============================================================================
