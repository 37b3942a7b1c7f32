------------------------------- MODULE EvalBot -------------------------------
(***************************************************************************)
(* EvalBot: it scores a deliverable against a weighted rubric (evalbot.ts, *)
(* rubric-engine.ts, verdict.ts), signs the ruling (ruling.ts) and keeps   *)
(* the rulings in a hash-chained file (ledger.ts).  The buyer's gate       *)
(* (wire/evaluator.ts) turns a ruling into accepted or rejected.  A score  *)
(* is a percentage; an aggregate is in hundredths of one.  A deliverable   *)
(* is the set of the mechanical checks it passes.  Hashes and signatures   *)
(* are the values they cover.                                              *)
(***************************************************************************)
EXTENDS Integers, Sequences, FiniteSets, Functions

CONSTANTS Rubrics,       \* [criteria, threshold, band]
          Deliverables,  \* sets of checks
          JudgeScores,   \* what the judge may give a criterion; {} is no score
          RulingWriters  \* who appends to the ledger

\* A judge scores in numbers; what is none is no score.
ASSUME EvalAssumption == JudgeScores \subseteq Int

VARIABLES evaljob,   \* [at, rubric, content, scores]; scores: the judge's answer
          ruling,    \* {} or {the signed ruling}
          ledger,    \* the file: sequence of [seq, prev, hash, ruling]
          snapshot,  \* writer -> {} or {the ledger it read}
          overlapped \* two appends were under way at the same time

evalVars == <<evaljob, ruling, ledger, snapshot, overlapped>>

Quiet == ledger = <<>> /\ snapshot = [w \in RulingWriters |-> {}] /\ overlapped = FALSE

EvalInit ==
    /\ \E r \in Rubrics, c \in Deliverables : evaljob = [at |-> "judge", rubric |-> r, content |-> c, scores |-> {}]
    /\ ruling = {} /\ Quiet

-----------------------------------------------------------------------------
(* The rubrics of the gate.                                                *)

Criterion(id, weight) == [id |-> id, kind |-> "mechanical", weight |-> weight]

rubricForOutcome(path) ==
    [criteria |-> <<Criterion("parses", 3), Criterion("substantive", 1)>>
                  \o (IF path THEN <<Criterion("well-formed", 2)>> ELSE <<>>),
     threshold |-> 60, band |-> 0]

securityAuditEvaluationPolicy ==
    [criteria |-> Append(rubricForOutcome(TRUE).criteria, Criterion("deterministic-coverage", 7)),
     threshold |-> 70, band |-> 0]

validateRubric(r) ==
    /\ r.criteria # <<>>
    /\ \A i, k \in DOMAIN r.criteria : r.criteria[i].id = r.criteria[k].id => i = k
    /\ \A i \in DOMAIN r.criteria : r.criteria[i].weight > 0
    /\ r.threshold \in 0 .. 100 /\ r.band >= 0

-----------------------------------------------------------------------------
(* Scores and verdict.                                                     *)

\* What only a JSON document can expose is never found in another one.
runMechanicalCheck(id, content) ==
    id \in content /\ (id \in {"well-formed", "deterministic-coverage"} => "parses" \in content)

SumOf(Part(_), s) == FoldFunction(LAMBDA x, acc : acc + Part(x), 0, s)
round2(sum, weight) == (200 * sum + weight) \div (2 * weight)

aggregateScores(results) ==
    LET Weight(x) == x.weight
        Scored(x) == IF x.score = {} THEN 0 ELSE x.weight
        Points(x) == IF x.score = {} THEN 0 ELSE x.weight * (CHOOSE v \in x.score : TRUE)
        scored == SumOf(Scored, results)
    IN  [aggregate |-> IF scored > 0 THEN {round2(SumOf(Points, results), scored)} ELSE {},
         total |-> SumOf(Weight, results), scored |-> scored]

\* Too little of the rubric scored, or too close to the threshold, decides nothing.
TooLittle(agg) == agg.aggregate = {} \/ 2 * (agg.total - agg.scored) > agg.total
decideVerdict(agg, rubric) ==
    IF TooLittle(agg) THEN "indeterminate"
    ELSE LET a == CHOOSE v \in agg.aggregate : TRUE
             t == 100 * rubric.threshold
             distance == IF a >= t THEN a - t ELSE t - a
         IN  IF rubric.band > 0 /\ distance <= 100 * rubric.band THEN "indeterminate"
             ELSE IF a >= t THEN "accept" ELSE "reject"

-----------------------------------------------------------------------------
(* The judge, and the ruling.                                              *)

Subjective(r) == {i \in DOMAIN r.criteria : r.criteria[i].kind = "subjective"}

\* parseJudgeOutput: scores are clamped to 0..100; a criterion the judge left
\* out, or gave no number, has none, and no score at all is no answer.  The
\* judge may be off, time out or answer with prose.
Clamp(v) == IF v < 0 THEN 0 ELSE IF v > 100 THEN 100 ELSE v
JudgeAnswers ==
    /\ evaljob.at = "judge"
    /\ validateRubric(evaljob.rubric)
    /\ \E answer \in [Subjective(evaljob.rubric) -> {{}} \cup {{Clamp(v)} : v \in JudgeScores}] :
           evaljob' = [evaljob EXCEPT !.at = "rule", 
                                      !.scores = UNION {{<<i, v>> : v \in answer[i]} : i \in DOMAIN answer}]
    /\ UNCHANGED <<ruling, ledger, snapshot, overlapped>>

Refuse ==
    /\ evaljob.at = "judge" /\ ~validateRubric(evaljob.rubric)
    /\ evaljob' = [evaljob EXCEPT !.at = "failed"]
    /\ UNCHANGED <<ruling, ledger, snapshot, overlapped>>

ScoreOf(i) ==
    LET c == evaljob.rubric.criteria[i] IN
    [id |-> c.id, kind |-> c.kind, weight |-> c.weight,
     score |-> IF c.kind = "mechanical" THEN {IF runMechanicalCheck(c.id, evaljob.content) THEN 100 ELSE 0}
               ELSE {s[2] : s \in {x \in evaljob.scores : x[1] = i}}]

ModeOf(results) == IF \E i \in DOMAIN results : results[i].kind = "subjective" /\ results[i].score = {}
                   THEN "rubric-only" ELSE "full"

Evaluate ==
    /\ evaljob.at = "rule"
    /\ LET results == [i \in DOMAIN evaljob.rubric.criteria |-> ScoreOf(i)]
           agg == aggregateScores(results)
       IN  ruling' = {[results |-> results, aggregate |-> agg.aggregate, mode |-> ModeOf(results),
                       verdict |-> decideVerdict(agg, evaljob.rubric)]}
    /\ evaljob' = [evaljob EXCEPT !.at = "ruled"]
    /\ UNCHANGED <<ledger, snapshot, overlapped>>

\* verifyRulingConsistency, with and without the rubric at hand.
verifyRuling(r) ==
    LET agg == aggregateScores(r.results) IN
    /\ \A i \in DOMAIN r.results : r.results[i].weight > 0 /\ \A v \in r.results[i].score : v \in 0 .. 100
    /\ r.aggregate = agg.aggregate
    /\ r.mode = IF \E i \in DOMAIN r.results : r.results[i].kind = "subjective" /\ r.results[i].score = {}
                THEN "rubric-only" ELSE "full"
    /\ TooLittle(agg) => r.verdict = "indeterminate"
verifyRulingUnder(r, rubric) == verifyRuling(r) /\ r.verdict = decideVerdict(aggregateScores(r.results), rubric)

\* resolveWithEvaluator
Accepted == \E r \in ruling : verifyRulingUnder(r, evaljob.rubric) /\ r.verdict = "accept"

-----------------------------------------------------------------------------
(* The ledger.                                                             *)

computeEntryHash(seq, prev, r) == <<seq, prev, r>>
GENESIS == <<>>

\* appendRuling reads the whole file, then appends one line to what the file
\* then is.
ReadLedger(w) ==
    /\ evaljob.at = "ruled" /\ snapshot[w] = {} /\ Len(ledger) < 2
    /\ snapshot' = [snapshot EXCEPT ![w] = {ledger}]
    /\ overlapped' = (overlapped \/ \E v \in RulingWriters : snapshot[v] # {})
    /\ UNCHANGED <<evaljob, ruling, ledger>>

AppendRuling(w) ==
    /\ snapshot[w] # {}
    /\ \E existing \in snapshot[w], r \in ruling :
           LET last == IF existing = <<>> THEN [seq |-> 0, hash |-> GENESIS] ELSE existing[Len(existing)]
               seq == last.seq + 1
           IN  ledger' = Append(ledger, [seq |-> seq, prev |-> last.hash, hash |-> computeEntryHash(seq, last.hash, r), ruling |-> r])
    /\ snapshot' = [snapshot EXCEPT ![w] = {}]
    /\ UNCHANGED <<evaljob, ruling, overlapped>>

\* A slip: every entry is checked by itself.
verifyLedgerEntries(file) ==
    \A i \in DOMAIN file : file[i].hash = computeEntryHash(file[i].seq, file[i].prev, file[i].ruling) /\ verifyRuling(file[i].ruling)

verifyLedger(file) ==
    \A i \in DOMAIN file :
        /\ file[i].seq = i
        /\ file[i].prev = IF i = 1 THEN GENESIS ELSE file[i - 1].hash
        /\ file[i].hash = computeEntryHash(file[i].seq, file[i].prev, file[i].ruling)
        /\ verifyRuling(file[i].ruling)

EvalNext == JudgeAnswers \/ Refuse \/ Evaluate \/ \E w \in RulingWriters : ReadLedger(w) \/ AppendRuling(w)

-----------------------------------------------------------------------------

\* A ruling EvalBot signs is one a third party confirms, from the ruling and
\* from the rubric, whatever the judge answered for some of the criteria,
\* for all of them or for none: verifyRuling re-derives aggregate, mode and
\* verdict from the scores and the signed body must agree.
EveryRulingVerifies == \A r \in ruling : verifyRulingUnder(r, evaljob.rubric)

\* The weights of the gate's rubrics do what their comments say: a report that
\* is not JSON is never accepted, and under the security policy neither is one
\* that leaves out a finding the buyer reproduced, however many of the other
\* criteria it meets.
GateHolds ==
    Accepted => LET r == evaljob.rubric IN
        /\ r \in {rubricForOutcome(TRUE), rubricForOutcome(FALSE), securityAuditEvaluationPolicy} => "parses" \in evaljob.content
        /\ r = securityAuditEvaluationPolicy => "deterministic-coverage" \in evaljob.content

\* Two rulings appended at the same time both follow the entry that was last
\* when they read the file.  Such a ledger never passes for a sound one, and
\* one whose appends came one after the other always does.
ForkIsNoticed == (\A w \in RulingWriters : snapshot[w] = {}) => (verifyLedger(ledger) <=> (~overlapped \/ Len(ledger) < 2))
=============================================================================
