------------------------------ MODULE SecAudit ------------------------------
(***************************************************************************)
(* The security-audit desk.  The quick tier attests and scans files, either *)
(* posted with the request (dacs/wire/sec-audit.ts) or of a directory that  *)
(* may change under the scan (sec-audit/auditor.ts, scanner.ts,            *)
(* deps-audit.ts), and seals a report (report.ts verifies it).  The deep   *)
(* tier fetches a repository, runs the tools in a sandbox, looks up        *)
(* advisories, asks for a review and seals what they found                 *)
(* (deep-audit.ts).  What the rules find in a content is part of it:       *)
(* [big, hits, marks], hits being [rule, line] and marks the audit-ok      *)
(* comments <<line, rule>>.  Hashes and signatures are injective: a hash   *)
(* is the value it is taken of.                                            *)
(***************************************************************************)
EXTENDS Integers, Sequences, FiniteSets

CONSTANTS AuditJobs,     \* [tier, kind, files]; files: sequence of [path, content]
          DepHits,       \* content of package.json -> the hits its dependencies give
          EditContents,  \* contents a file of the directory may be changed to
          MaxEdits,      \* bound on such changes
          ToolReports    \* what a tool may report: sets of severities

DEP_RULE == "dep-vulnerable"
REPO_LINE_RULES == {"secret-assignment", "code-http-url"}
SOL_RULE_TABLE  == {"sol-tx-origin", "sol-reentrancy"}
RuleTable == REPO_LINE_RULES \cup SOL_RULE_TABLE \cup {"secret-file-committed", DEP_RULE}

\* A job names its files; a dependency's hits are of its rule, and a tool, as
\* a review, knows five severities.
FilesOf == UNION {{j.files[i] : i \in DOMAIN j.files} : j \in AuditJobs}
AuditSeverities == {"critical", "high", "medium", "low", "info"}
ASSUME AuditAssumption ==
    /\ \A j \in AuditJobs : j.files \in Seq(FilesOf)
    /\ \A f \in FilesOf : f = [path |-> f.path, content |-> f.content]
    /\ \A c \in DOMAIN DepHits : \A h \in DepHits[c] : h.rule = DEP_RULE
    /\ \A sevs \in ToolReports : sevs \subseteq AuditSeverities

VARIABLES aud,       \* the job and its locals
          tree,      \* the directory, or the posted files: sequence of [path, content]
          edits,     \* changes made to the directory so far
          report     \* {} or {the sealed report}

auditVars == <<aud, tree, edits, report>>

NoAudit == [at |-> "rest", job |-> 0, records |-> <<>>, hits |-> {}, supp |-> {}, deps |-> "skipped",
            llm |-> {}, tools |-> {}, found |-> {}, cleaned |-> FALSE]

AuditInit ==
    /\ \E j \in AuditJobs : /\ aud = [NoAudit EXCEPT !.at = IF j.tier = "quick" THEN "scan" ELSE "fetch", !.job = j]
                            /\ tree = j.files
    /\ edits = 0 /\ report = {}

AuditGoto(at) == aud' = [aud EXCEPT !.at = at]

-----------------------------------------------------------------------------
(* The quick tier.                                                         *)

\* Somebody works in the audited directory.
EditFile ==
    /\ aud.at \in {"scan", "deps", "llm", "sealed"} /\ aud.job.kind = "dir" /\ edits < MaxEdits
    /\ edits' = edits + 1
    /\ \E i \in DOMAIN tree, c \in EditContents : c # tree[i].content /\ tree' = [tree EXCEPT ![i].content = c]
    /\ UNCHANGED <<aud, report>>

\* A slip: a marker silences every rule on its line.
applySuppressionsAny(hits, marks) == {h \in hits : \E m \in marks : m[1] = h.line}

\* What the markers silence.
applySuppressions(hits, marks) == {h \in hits : <<h.line, h.rule>> \in marks}

\* Solidity files have rules of their own; the name of a file may be a hit.
isSolidityFile(path) == path = "C.sol"
SolidityHits(c) == {h \in c.hits : h.rule \in SOL_RULE_TABLE}
RepoLineHits(c) == {h \in c.hits : h.rule \in REPO_LINE_RULES}
RepoFileHits(path) == IF path = ".env" THEN {[rule |-> "secret-file-committed", line |-> 1]} ELSE {}

\* A file too big, or binary, is not scanned: what its name gives stays, and
\* no marker is read.
scanFileContent(path, c) ==
    IF c.big THEN [hits |-> RepoFileHits(path), supp |-> {}]
    ELSE LET all == RepoFileHits(path) \cup (IF isSolidityFile(path) THEN SolidityHits(c) ELSE RepoLineHits(c))
             supp == applySuppressions(all, c.marks)
         IN  [hits |-> all \ supp, supp |-> supp]

\* `of` is the content a hit was found in; the report does not hold it.
Hit(path, content, h) == [path |-> path, of |-> content, rule |-> h.rule, line |-> h.line]
AsHits(path, content, hs) == {Hit(path, content, h) : h \in hs}

\* attestFileContent and scanFileContent of one file, from one read of it.
AuditFile ==
    /\ aud.at = "scan" /\ Len(aud.records) < Len(tree)
    /\ LET f == tree[Len(aud.records) + 1]
           r == scanFileContent(f.path, f.content)
       IN  aud' = [aud EXCEPT !.records = Append(@, f),
                              !.hits = @ \cup AsHits(f.path, f.content, r.hits),
                              !.supp = @ \cup AsHits(f.path, f.content, r.supp)]
    /\ UNCHANGED <<tree, edits, report>>

\* recordIdByPath: a path given twice keeps the record of the last.
RecordOf(path) == {k \in DOMAIN aud.records : aud.records[k].path = path
                                              /\ \A l \in DOMAIN aud.records : aud.records[l].path = path => l <= k}

\* package.json is read again for the dependency audit; a registry that does
\* not answer leaves it unreachable.  Posted files have none.
AuditDeps ==
    /\ aud.at = "scan" /\ Len(aud.records) = Len(tree)
    /\ LET pkgs == {i \in DOMAIN tree : tree[i].path = "package.json"} IN
       IF aud.job.kind = "posted" \/ pkgs = {} THEN AuditGoto("llm")
       ELSE \/ aud' = [aud EXCEPT !.at = "llm", !.deps = "unreachable"]
            \/ \E i \in pkgs : LET c == tree[i].content
                                   hs == IF c \in DOMAIN DepHits THEN DepHits[c] ELSE {}
                               IN  aud' = [aud EXCEPT !.at = "llm", !.deps = "live",
                                                      !.hits = @ \cup AsHits("package.json", c, hs)]
    /\ UNCHANGED <<tree, edits, report>>

\* The optional pass: a suggestion for a file that was not attested is
\* dropped, and a pass that throws leaves none.
AuditLlm ==
    /\ aud.at = "llm"
    /\ \E S \in {{}} \cup (IF aud.job.kind = "posted" THEN {}
                           ELSE {{p} : p \in {tree[i].path : i \in DOMAIN tree} \cup {"elsewhere"}}) :
          aud' = [aud EXCEPT !.at = "seal", !.llm = {p \in S : RecordOf(p) # {}}]
    /\ UNCHANGED <<tree, edits, report>>

Cites(path) == RecordOf(path)

Finding(h, origin) == [path |-> h.path, rule |-> h.rule, line |-> h.line, of |-> h.of, origin |-> origin, cites |-> Cites(h.path)]

ruleStats(findings) == [r \in RuleTable |-> Cardinality({f \in findings : f.rule = r})]

AuditSeal ==
    /\ aud.at = "seal"
    /\ LET findings == {Finding(h, "deterministic") : h \in aud.hits}
           core == [files |-> aud.records, findings |-> findings, supp |-> aud.supp, deps |-> aud.deps,
                    llm |-> {Finding(Hit(p, 0, [rule |-> "llm", line |-> 1]), "llm-suggested") : p \in aud.llm},
                    stats |-> ruleStats(findings)]
       IN  report' = {[core |-> core, seal |-> core]}
    /\ AuditGoto("sealed")
    /\ UNCHANGED <<tree, edits>>

\* verifyReport, from the report alone.
checkFindings(r, fs, origin) ==
    \A f \in fs : f.origin = origin /\ f.cites # {} /\ f.cites \subseteq DOMAIN r.core.files

verifyReport(r) ==
    /\ checkFindings(r, r.core.findings, "deterministic")
    /\ checkFindings(r, r.core.llm, "llm-suggested")
    /\ \A x \in DOMAIN r.core.stats : r.core.stats[x] = Cardinality({f \in r.core.findings : f.rule = x})
    /\ \A f \in r.core.findings : f.rule \in DOMAIN r.core.stats
    /\ r.seal = r.core

-----------------------------------------------------------------------------
(* The deep tier.                                                          *)

weight(sev) == IF sev \in {"critical", "high"} THEN 2 ELSE IF sev \in {"medium", "low"} THEN 1 ELSE 0

mechanicalFloor(found) ==
    LET W == {weight(f.sev) : f \in {g \in found : g.origin # "llm"}} IN
    IF W = {} THEN 0 ELSE CHOOSE w \in W : \A x \in W : x <= w

VERDICTS == <<"clean", "issues-found", "critical-issues">>
combineDeepVerdict(available, found) == IF ~available THEN "indeterminate" ELSE VERDICTS[mechanicalFloor(found) + 1]

contentHash(f)       == [tool |-> f.tool, sev |-> f.sev]       \* the origin is not in it
toolFindingsHash(fs) == {f.hash : f \in fs}
makeFinding(tool, origin, sev) == [tool |-> tool, origin |-> origin, sev |-> sev, hash |-> [tool |-> tool, sev |-> sev]]

ToolRun(name, fs) == [name |-> name, bound |-> toolFindingsHash(fs), count |-> Cardinality(fs)]
WithRun(name, origin, sevs) ==
    LET fs == {makeFinding(name, origin, s) : s \in sevs} IN
    [aud EXCEPT !.tools = @ \cup {ToolRun(name, fs)}, !.found = @ \cup fs]

\* The repository is fetched outside the try block; inside it, whatever
\* throws, the workspace is removed.
DeepThrow == aud' = [aud EXCEPT !.at = "thrown", !.cleaned = TRUE] /\ UNCHANGED report

\* runDeepAudit up to sandbox.available(); without one nothing runs.
DeepStart ==
    /\ aud.at = "fetch"
    /\ \/ AuditGoto("unfetched")
       \/ AuditGoto("tools")
       \/ AuditGoto("nosandbox")
    /\ UNCHANGED <<tree, edits, report>>

\* planTools: slither too when there is Solidity.
PlanTools == IF \E i \in DOMAIN tree : isSolidityFile(tree[i].path) THEN {"semgrep", "slither"} ELSE {"semgrep"}
RanNames  == {t.name : t \in aud.tools}

\* One tool of runDeepTools: a report that is missing or does not parse is
\* one with no findings, whatever the exit code.
DeepTool ==
    /\ aud.at = "tools"
    /\ \/ DeepThrow
       \/ \E sevs \in ToolReports \cup {{}} :
             LET tool == CHOOSE t \in PlanTools \ RanNames : t = "semgrep" \/ "semgrep" \in RanNames
                 next == WithRun(tool, "tool", sevs)
             IN  aud' = [next EXCEPT !.at = IF PlanTools \subseteq RanNames \cup {tool} THEN "advisory" ELSE "tools"]
          /\ UNCHANGED report
    /\ UNCHANGED <<tree, edits>>

\* The advisory scan, when there is a registry and something to scan.
DeepAdvisory ==
    /\ aud.at = "advisory"
    /\ \/ DeepThrow
       \/ AuditGoto("review") /\ UNCHANGED report
       \/ \E sevs \in ToolReports \cup {{}} : aud' = [WithRun("dep-advisory", "advisory", sevs) EXCEPT !.at = "review"]
          /\ UNCHANGED report
    /\ UNCHANGED <<tree, edits>>

\* The review; one that throws is replaced by the heuristic one, without
\* findings.
DeepReview ==
    /\ aud.at = "review"
    /\ \E sevs \in ToolReports \cup {{}} : aud' = [WithRun("llm-review", "llm", sevs) EXCEPT !.at = "seal-deep"]
    /\ UNCHANGED <<tree, edits, report>>

DeepSeal ==
    /\ aud.at \in {"seal-deep", "nosandbox"}
    /\ LET available == aud.at = "seal-deep"
           core == [available |-> available, tools |-> aud.tools, found |-> aud.found,
                    verdict |-> combineDeepVerdict(available, aud.found)]
       IN  report' = {[core |-> core, seal |-> core]}
    /\ aud' = [aud EXCEPT !.at = "done", !.cleaned = TRUE]
    /\ UNCHANGED <<tree, edits>>

NotCleaner(verdict, found) == \E i \in DOMAIN VERDICTS : VERDICTS[i] = verdict /\ i - 1 >= mechanicalFloor(found)

verifyDeepAudit(r) ==
    LET c == r.core
        own(t) == {f \in c.found : f.tool = t.name}
    IN  /\ \A f \in c.found : f.hash = contentHash(f) /\ f.tool \in {t.name : t \in c.tools}
        /\ \A t \in c.tools : t.bound = toolFindingsHash(own(t)) /\ t.count = Cardinality(own(t))
        /\ IF c.verdict = "indeterminate" THEN c.tools = {} /\ c.found = {}
           ELSE c.tools # {} /\ NotCleaner(c.verdict, c.found)
        /\ r.seal = c

-----------------------------------------------------------------------------

AuditNext == \/ EditFile \/ AuditFile \/ AuditDeps \/ AuditLlm \/ AuditSeal
             \/ DeepStart \/ DeepTool \/ DeepAdvisory \/ DeepReview \/ DeepSeal

Quick(r) == "files" \in DOMAIN r.core

\* Every report of either tier passes the verification its buyer runs,
\* whatever was edited under the scan and whichever tool, scan or review
\* failed.
EveryAuditVerifies == \A r \in report : IF Quick(r) THEN verifyReport(r) ELSE verifyDeepAudit(r)

\* A finding cites a record of the very content it was found in, when no
\* path was posted twice and, for a dependency, package.json did not change
\* between the scan and its second read.
FindingCitesItsContent ==
    \A r \in report : Quick(r) => \A f \in r.core.findings : \A k \in f.cites :
        \/ r.core.files[k].content = f.of
        \/ \E i, j \in DOMAIN r.core.files : i # j /\ r.core.files[i].path = r.core.files[j].path
        \/ f.rule = DEP_RULE /\ edits > 0

\* Nothing a rule finds in an attested content is lost: it is a finding, or a
\* suppression that a marker for this rule, on this line, asked for; and a
\* file no rule could read silences nothing.
NothingLost ==
    \A r \in report : Quick(r) => \A k \in DOMAIN r.core.files :
        LET f == r.core.files[k]
            own == IF f.path = "C.sol" THEN SOL_RULE_TABLE ELSE REPO_LINE_RULES
            all == {h \in f.content.hits : ~f.content.big /\ h.rule \in own}
                   \cup {[rule |-> "secret-file-committed", line |-> 1] : x \in {f.path} \cap {".env"}}
        IN  \A h \in all :
               \/ \E x \in r.core.findings : x.path = f.path /\ x.rule = h.rule /\ x.line = h.line
               \/ Hit(f.path, f.content, h) \in r.core.supp /\ <<h.line, h.rule>> \in f.content.marks

\* A deep report re-sealed by its author with a verdict lowered, a finding
\* of a tool left out or softened, or a tool run left out, is refused.
DeepEdits(r) ==
    LET c == r.core
        edited == {[c EXCEPT !.verdict = v] : v \in {VERDICTS[i] : i \in 1 .. mechanicalFloor(c.found)}}
                  \cup {[c EXCEPT !.found = @ \ {f}] : f \in c.found}
                  \cup {[c EXCEPT !.found = (@ \ {f}) \cup {[f EXCEPT !.sev = "info"]}] : f \in {g \in c.found : g.sev # "info"}}
                  \cup {[c EXCEPT !.tools = @ \ {t}] : t \in {u \in c.tools : u.count > 0}}
    IN  {[core |-> e, seal |-> e] : e \in edited}
DeepEditRefused == \A r \in report : ~Quick(r) => \A e \in DeepEdits(r) : ~verifyDeepAudit(e)

\* The review never moves the verdict, and no verdict but indeterminate
\* comes from a job without a sandbox: it is what the tools and the advisory
\* scan found, whatever the review added.
VerdictIsMechanical ==
    \A r \in report : ~Quick(r) =>
        LET mech == {f \in r.core.found : f.origin \in {"tool", "advisory"}} IN
        /\ r.core.verdict = "indeterminate" <=> ~(\E t \in r.core.tools : t.name = "semgrep")
        /\ r.core.verdict = "clean" <=> r.core.available /\ \A f \in mech : f.sev = "info"
        /\ r.core.verdict = "critical-issues" <=> \E f \in mech : f.sev \in {"critical", "high"}
=============================================================================
