----------------------------- MODULE Evaluator -----------------------------
(***************************************************************************)
(* The code evaluator (src/agents/evaluator.ts): it clones a pull request, *)
(* runs its checks in a sandbox, asks an LLM for a review, combines both   *)
(* into a verdict and delivers it as a signed, anchored attestation, with  *)
(* a companion review on the pull request if the caller wants one.  One    *)
(* job: its caller evaluates, delivers, and calls again as often as it     *)
(* likes.  A step is what the agent does between two awaits.               *)
(*                                                                         *)
(* External: GitHub, the container runtime, the advisory service, the LLM. *)
(***************************************************************************)
EXTENDS Integers, FiniteSets

CONSTANTS
  MaxHead,        \* the pull request's heads are commits 1 .. MaxHead, the default branch is 0
  Project,        \* Project[c]: [manifest |-> "none", "broken" or "ok", scripts |-> ..., typescript |-> ...]
  MaxEvaluations, \* bound on calls of evaluate and deliverEvaluation
  MaxEvalFaults   \* bound on failing git commands, sandbox runs and anchors

VARIABLES
  head,           \* the head commit of the pull request
  evaluation,     \* [at, head, tree, sandbox, checks, verdict, review] of the evaluation under way
  companions,     \* ids of the companion reviews on the pull request
  evaluated,      \* {} or {attestation}: the evaluation anchored for the job
  workspaces,     \* the temporary directories on the host, named by their evaluation
  cloneFailed,    \* history: directories whose clone failed
  withdrawn,      \* history: companion reviews somebody deleted
  companionLost,  \* history: the anchor failed after a companion review was posted
  evaluations, evalFaults

evaluatorVars == <<head, evaluation, companions, evaluated, workspaces, cloneFailed, withdrawn,
                   companionLost, evaluations, evalFaults>>

NoEvaluation == [at |-> "idle", head |-> 0, tree |-> 0, sandbox |-> FALSE, checks |-> {},
                 verdict |-> "none", review |-> 0]

EvaluatorInit ==
  /\ head = 1 /\ evaluation = NoEvaluation
  /\ companions = {} /\ evaluated = {} /\ workspaces = {} /\ cloneFailed = {}
  /\ withdrawn = {} /\ companionLost = FALSE
  /\ evaluations = 0 /\ evalFaults = 0

-----------------------------------------------------------------------------
(* The checks.  planChecks: none without a package.json that parses.       *)
GatingChecks == {"install", "build", "test", "typecheck"}
Gating(checks) == {c \in checks : c.name \in GatingChecks}
FailedChecks(checks) == {c.name : c \in {g \in Gating(checks) : ~g.passed}}

planChecks(c) ==
  IF Project[c].manifest # "ok" THEN {}
  ELSE {"install"} \cup (Project[c].scripts \cap {"build", "test"})
       \cup (IF Project[c].typescript THEN {"typecheck"} ELSE {})

(* What runExecutionChecks still has to run: nothing after a failed install. *)
Remaining(e) ==
  LET ran == {c.name : c \in e.checks}
  IN IF "install" \in FailedChecks(e.checks) THEN {} ELSE planChecks(e.tree) \ ran

CheckOrder == <<"install", "build", "test", "typecheck">>
NextCheck(e) == CHOOSE n \in Remaining(e) :
  \A m \in Remaining(e), i, k \in 1 .. 4 : CheckOrder[i] = n /\ CheckOrder[k] = m => i <= k

(* What makeEvalReviewer hands over: the verdict of an LLM's answer that   *)
(* parses, or else the heuristic's, which never asks for changes.          *)
LlmVerdicts == {"approve", "request-changes", "comment"}
HeuristicVerdicts == {"approve", "comment"}
Reviews == LlmVerdicts \cup HeuristicVerdicts

(* A slip: a red test suite leaves the LLM's verdict.                      *)
combineVerdict_SoftIgnored(available, checks, review) ==
  LET llm == IF review = "comment" THEN "approve" ELSE review
  IN IF ~available THEN "indeterminate"
     ELSE IF FailedChecks(checks) \cap {"install", "build"} # {} THEN "reject" ELSE llm

combineVerdict(available, checks, review) ==
  LET llm == IF review = "comment" THEN "approve" ELSE review
  IN IF ~available THEN "indeterminate"
     ELSE IF FailedChecks(checks) \cap {"install", "build"} # {} THEN "reject"
     ELSE IF FailedChecks(checks) # {} THEN "request-changes"
     ELSE llm

-----------------------------------------------------------------------------
(* fetchPr: the head, the clone into a new directory, the checkout of the  *)
(* head.  A failing fetch or checkout is swallowed and leaves the default  *)
(* branch; a failing clone throws, before evaluate's try block begins.     *)
fetchPr ==
  /\ evaluation.at \in {"idle", "delivered", "thrown", "unanchored"}
  /\ evaluations < MaxEvaluations
  /\ evaluations' = evaluations + 1
  /\ evaluation' = [NoEvaluation EXCEPT !.at = "viewed", !.head = head]
  /\ UNCHANGED <<head, companions, evaluated, workspaces, cloneFailed, withdrawn, companionLost,
                 evalFaults>>

Clone ==
  /\ evaluation.at = "viewed"
  /\ workspaces' = workspaces \cup {evaluations}
  /\ \/ /\ evaluation' = [evaluation EXCEPT !.at = "cloned", !.tree = evaluation.head]
        /\ UNCHANGED <<cloneFailed, evalFaults>>
     \/ /\ evalFaults < MaxEvalFaults /\ evalFaults' = evalFaults + 1
        /\ \/ /\ evaluation' = [evaluation EXCEPT !.at = "cloned", !.tree = 0]
              /\ UNCHANGED cloneFailed
           \/ /\ evaluation' = [evaluation EXCEPT !.at = "thrown"]
              /\ cloneFailed' = cloneFailed \cup {evaluations}
  /\ UNCHANGED <<head, companions, evaluated, withdrawn, companionLost, evaluations>>

AskSandbox ==
  /\ evaluation.at = "cloned"
  /\ \E available \in BOOLEAN :
       evaluation' = [evaluation EXCEPT !.at = IF available THEN "checking" ELSE "advising",
                                        !.sandbox = available]
  /\ UNCHANGED <<head, companions, evaluated, workspaces, cloneFailed, withdrawn, companionLost,
                 evaluations, evalFaults>>

(* One check in its container.  An install passes if npm ci or, failing    *)
(* that, npm install does; a timeout or a failed spawn is a failed check.  *)
RunCheck ==
  /\ evaluation.at = "checking" /\ Remaining(evaluation) # {}
  /\ \E passed \in BOOLEAN :
       evaluation' = [evaluation EXCEPT
         !.checks = @ \cup {[name |-> NextCheck(evaluation), passed |-> passed]}]
  /\ UNCHANGED <<head, companions, evaluated, workspaces, cloneFailed, withdrawn, companionLost,
                 evaluations, evalFaults>>

(* The daemon has become unreachable: run throws, and the finally block    *)
(* removes the workspace.                                                  *)
SandboxGone ==
  /\ evaluation.at = "checking" /\ Remaining(evaluation) # {}
  /\ evalFaults < MaxEvalFaults /\ evalFaults' = evalFaults + 1
  /\ evaluation' = [evaluation EXCEPT !.at = "thrown"]
  /\ workspaces' = workspaces \ {evaluations}
  /\ UNCHANGED <<head, companions, evaluated, cloneFailed, withdrawn, companionLost, evaluations>>

(* runAdvisoryScan, on the host: a severe hit fails it, an unreachable     *)
(* service passes it, nothing is asked without a package.json, and one     *)
(* that does not parse throws out of the evaluation.                       *)
Advise ==
  /\ \/ evaluation.at = "advising"
     \/ evaluation.at = "checking" /\ Remaining(evaluation) = {}
  /\ IF Project[evaluation.tree].manifest = "broken"
     THEN /\ evaluation' = [evaluation EXCEPT !.at = "thrown"]
          /\ workspaces' = workspaces \ {evaluations}
     ELSE /\ \E passed \in BOOLEAN :
               evaluation' = [evaluation EXCEPT !.at = "reviewing",
                 !.checks = @ \cup (IF Project[evaluation.tree].manifest = "none" THEN {}
                                    ELSE {[name |-> "dep-advisory", passed |-> passed]})]
          /\ UNCHANGED workspaces
  /\ UNCHANGED <<head, companions, evaluated, cloneFailed, withdrawn, companionLost, evaluations,
                 evalFaults>>

(* The review, the verdict, and the finally block.                         *)
Conclude ==
  /\ evaluation.at = "reviewing"
  /\ \E review \in Reviews :
       evaluation' = [evaluation EXCEPT !.at = "evaluated",
         !.verdict = combineVerdict(evaluation.sandbox, evaluation.checks, review)]
  /\ workspaces' = workspaces \ {evaluations}
  /\ UNCHANGED <<head, companions, evaluated, cloneFailed, withdrawn, companionLost, evaluations,
                 evalFaults>>

-----------------------------------------------------------------------------
(* deliverEvaluation: a job that has an anchored evaluation keeps it.      *)
NextReview == 1 + Cardinality(companions \cup withdrawn)

Deliver ==
  /\ evaluation.at \in {"evaluated", "unanchored"}
  /\ evaluation.at = "unanchored" => evaluations < MaxEvaluations
  /\ evaluations' = IF evaluation.at = "unanchored" THEN evaluations + 1 ELSE evaluations
  /\ IF evaluated # {}
     THEN /\ evaluation' = [evaluation EXCEPT !.at = "delivered"]
          /\ UNCHANGED companions
     ELSE \E posted \in BOOLEAN :
            /\ evaluation' = [evaluation EXCEPT !.at = "anchoring",
                                                !.review = IF posted THEN NextReview ELSE 0]
            /\ companions' = companions \cup (IF posted THEN {NextReview} ELSE {})
  /\ UNCHANGED <<head, evaluated, workspaces, cloneFailed, withdrawn, companionLost, evalFaults>>

Anchored(e) == [head |-> e.head, tree |-> e.tree, sandbox |-> e.sandbox, checks |-> e.checks,
                verdict |-> e.verdict, review |-> e.review]

AnchorEvaluation ==
  /\ evaluation.at = "anchoring"
  /\ evaluated' = {Anchored(evaluation)}
  /\ evaluation' = [evaluation EXCEPT !.at = "delivered"]
  /\ UNCHANGED <<head, companions, workspaces, cloneFailed, withdrawn, companionLost, evaluations,
                 evalFaults>>

AnchorEvaluationThrows ==
  /\ evaluation.at = "anchoring" /\ evalFaults < MaxEvalFaults
  /\ evalFaults' = evalFaults + 1
  /\ evaluation' = [evaluation EXCEPT !.at = "unanchored"]
  /\ companionLost' = (companionLost \/ evaluation.review # 0)
  /\ UNCHANGED <<head, companions, evaluated, workspaces, cloneFailed, withdrawn, evaluations>>

(* The author pushes a commit; somebody deletes a review (external).       *)
PushCommit ==
  /\ head < MaxHead /\ head' = head + 1
  /\ UNCHANGED <<evaluation, companions, evaluated, workspaces, cloneFailed, withdrawn,
                 companionLost, evaluations, evalFaults>>

WithdrawReview ==
  /\ companions # {} /\ withdrawn = {}
  /\ companions' = {} /\ withdrawn' = companions
  /\ UNCHANGED <<head, evaluation, evaluated, workspaces, cloneFailed, companionLost, evaluations,
                 evalFaults>>

EvaluatorNext ==
  \/ fetchPr \/ Clone \/ AskSandbox \/ RunCheck \/ SandboxGone \/ Advise \/ Conclude
  \/ Deliver \/ AnchorEvaluation \/ AnchorEvaluationThrows \/ PushCommit \/ WithdrawReview

-----------------------------------------------------------------------------
(* What a third party can enforce on a signed evaluation.                  *)
verdictConsistentWithChecks(verdict, checks) == verdict = "approve" => FailedChecks(checks) = {}

verifyEvaluation(att) ==
  /\ att.head # 0
  /\ verdictConsistentWithChecks(att.verdict, att.checks)
  /\ att.review = 0 \/ att.review \in companions

-----------------------------------------------------------------------------
(* Every anchored evaluation passes the check a verifier makes, until its  *)
(* companion review is deleted.                                            *)
EvaluationVerifies == \A att \in evaluated : att.review \in withdrawn \/ verifyEvaluation(att)

(* An approval is earned: every check planned for the tree has run and     *)
(* passed.  Without a sandbox nothing ran and the verdict is indeterminate. *)
ApprovalIsEarned ==
  \A att \in evaluated :
    /\ att.verdict = "approve" =>
         /\ att.sandbox
         /\ \A n \in planChecks(att.tree) : [name |-> n, passed |-> TRUE] \in att.checks
    /\ ~att.sandbox <=> att.verdict = "indeterminate"
    /\ ~att.sandbox => Gating(att.checks) = {}

(* One companion review per job, unless an anchor failed after it.         *)
OneCompanion == companionLost \/ Cardinality(companions \cup withdrawn) <= 1

(* However an evaluation ends, its workspace is gone; only a failed clone  *)
(* leaves one.                                                             *)
WorkspaceIsRemoved ==
  evaluation.at \notin {"cloned", "checking", "advising", "reviewing"} => workspaces \subseteq cloneFailed

(* What a job's evaluation promises, through every retry and fault.        *)
EvaluationIsSound == EvaluationVerifies /\ ApprovalIsEarned /\ OneCompanion /\ WorkspaceIsRemoved
=============================================================================
