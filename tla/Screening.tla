----------------------------- MODULE Screening ------------------------------
(***************************************************************************)
(* Compliance screening of one subject over snapshots already loaded       *)
(* (roster/compliance/screener.ts, matching.ts) and the verification of    *)
(* the report by whoever receives it (report.ts).  A score is an integer,  *)
(* ONE standing for 1.0; the report keeps scores rounded to GRAIN, the     *)
(* sixth decimal of the code.  Names are what they score against the       *)
(* subject: in full, and without corporate suffixes.                       *)
(***************************************************************************)
EXTENDS Integers, Sequences, FiniteSets, SequencesExt

CONSTANTS ONE, GRAIN, MATCH_THRESHOLD, POTENTIAL_THRESHOLD,
          MAX_MATCHES_PER_SOURCE,
          ListEntries,    \* the entries a list may hold: sequences of names [full, core]
          MaxEntries,     \* bound on the entries of one list
          SubjectKinds

SOURCE_IDS == <<"ofac-sdn", "opensanctions-pep", "sec-edgar">>   \* un, eu and uk screen like ofac

\* The thresholds have no more decimals than the report keeps.
ASSUME ScreeningAssumption ==
    /\ {ONE, MATCH_THRESHOLD, POTENTIAL_THRESHOLD} \subseteq Int /\ 0 < POTENTIAL_THRESHOLD
    /\ POTENTIAL_THRESHOLD <= MATCH_THRESHOLD /\ MATCH_THRESHOLD <= ONE
    /\ MAX_MATCHES_PER_SOURCE \in Nat \ {0} /\ GRAIN \in Nat \ {0}
    /\ \A t \in {ONE, MATCH_THRESHOLD, POTENTIAL_THRESHOLD} : t % GRAIN = 0
    /\ ListEntries \subseteq Seq([full : Int, core : Int]) /\ MaxEntries \in Nat

VARIABLES subject,   \* [kind, wallet]: whether its wallet is on OFAC's list
          inputs,    \* per source of the panel: what loadAll handed over
          screening  \* {} or {the report}

screenVars == <<subject, inputs, screening>>

GapInput == [gap |-> TRUE, entries |-> <<>>]
Snapshots == {[gap |-> FALSE, entries |-> e] :
                 e \in {<<>>} \cup UNION {[1 .. n -> ListEntries] : n \in 1 .. MaxEntries}}

\* loadAll: a source that throws is a gap, not a crash.
ScreenInit ==
    /\ subject \in [kind : SubjectKinds, wallet : BOOLEAN]
    /\ inputs \in [1 .. Len(SOURCE_IDS) -> Snapshots \cup {GapInput}]
    /\ screening = {}

-----------------------------------------------------------------------------
(* Matching.                                                               *)

\* The i-th character of s takes the first free equal one of t at a distance of
\* at most w.
TakeFirst(s, t, w, i, got) ==
    LET free == {j \in 1 .. Len(t) : j >= i - w /\ j <= i + w /\ s[i] = t[j] /\ \A p \in got : p[2] # j}
    IN  got \cup {<<i, j>> : j \in {x \in free : \A y \in free : x <= y}}

\* The characters of two strings that are matched, from the left of the first.
Pairs(s, t, w) ==
    LET after[i \in 0 .. Len(s)] == IF i = 0 THEN {} ELSE TakeFirst(s, t, w, i, after[i - 1])
    IN  after[Len(s)]

\* The k-th smallest of a set of numbers.
Nth(S, k) == CHOOSE i \in S : Cardinality({j \in S : j < i}) = k - 1

\* As an exact fraction.  T counts the matched characters out of order.
Jaro(s, t) ==
    LET l1 == Len(s)  l2 == Len(t)
        M  == IF l1 > l2 THEN l1 ELSE l2
        w  == IF M \div 2 - 1 > 0 THEN M \div 2 - 1 ELSE 0
        got == Pairs(s, t, w)
        m   == Cardinality(got)
        T   == Cardinality({k \in 1 .. m : s[Nth({p[1] : p \in got}, k)] # t[Nth({p[2] : p \in got}, k)]})
    IN  IF m = 0 THEN [num |-> 0, den |-> 1]
        ELSE [num |-> 2 * m * m * (l1 + l2) + (2 * m - T) * l1 * l2, den |-> 6 * m * l1 * l2]

\* With the Winkler bonus for a common prefix of up to four characters.
jaroWinkler(s, t) ==
    IF s = t THEN [num |-> IF s = <<>> THEN 0 ELSE 1, den |-> 1]
    ELSE IF s = <<>> \/ t = <<>> THEN [num |-> 0, den |-> 1]
    ELSE LET j == Jaro(s, t)
             P == {k \in 0 .. 4 : k <= Len(s) /\ k <= Len(t) /\ \A i \in 1 .. k : s[i] = t[i]}
             p == CHOOSE k \in P : \A q \in P : q <= k
         IN  [num |-> 10 * j.num + p * (j.den - j.num), den |-> 10 * j.den]

\* The better of the two variants; equal keys are an exact match.
scorePrepared(name) == IF name.full >= ONE \/ name.core <= name.full THEN name.full ELSE name.core
Method(score) == IF score >= ONE THEN "exact" ELSE "jaro-winkler"

\* bestNameMatchPrepared: the best score of an entry's names at or above the
\* threshold; 0 for none.
bestNameMatch(entry) ==
    LET S == {scorePrepared(entry[i]) : i \in DOMAIN entry}
        T == {x \in S : x >= POTENTIAL_THRESHOLD}
    IN  IF T = {} THEN 0 ELSE CHOOSE x \in T : \A y \in T : y <= x

classifyScore(score) == IF score >= MATCH_THRESHOLD THEN "match"
                        ELSE IF score >= POTENTIAL_THRESHOLD THEN "potential-match" ELSE "none"

severityForMatch(method, score) ==
    CASE method \in {"wallet-exact", "exact"} -> "match"
      [] method = "edgar-registration" -> "info"
      [] method = "jaro-winkler" -> classifyScore(score)
      [] method = "pep-match" -> IF score >= ONE THEN "match"
                                 ELSE IF score >= POTENTIAL_THRESHOLD THEN "potential-match" ELSE "none"

round6(s) == ((s + GRAIN \div 2) \div GRAIN) * GRAIN

\* The severity is taken of the score as computed, the report keeps it
\* rounded.
makeMatch(method, score) == [method |-> method, score |-> round6(score), severity |-> severityForMatch(method, score)]

-----------------------------------------------------------------------------
(* Screening.                                                              *)

\* The matches of a source are indexed by the entries that gave them, in the
\* order they are found; the wallet's comes last.
Hits(entries) == {i \in DOMAIN entries : bestNameMatch(entries[i]) > 0}

screenNamesAgainstEntries(entries) ==
    [i \in Hits(entries) |-> makeMatch(Method(bestNameMatch(entries[i])), bestNameMatch(entries[i]))]
screenNamesAgainstPep(entries) == [i \in Hits(entries) |-> makeMatch("pep-match", bestNameMatch(entries[i]))]
screenEntityAgainstEdgar(entries) ==
    [i \in {k \in Hits(entries) : bestNameMatch(entries[k]) >= MATCH_THRESHOLD} |->
        makeMatch("edgar-registration", bestNameMatch(entries[i]))]
screenWalletAgainstSdn(entries) ==
    [i \in (IF subject.wallet THEN {Len(entries) + 1} ELSE {}) |-> makeMatch("wallet-exact", ONE)]

Joined(f, g) == [k \in DOMAIN f \cup DOMAIN g |-> IF k \in DOMAIN f THEN f[k] ELSE g[k]]

AllMatches(id, entries) ==
    CASE id = "sec-edgar" -> IF subject.kind = "entity" THEN screenEntityAgainstEdgar(entries) ELSE <<>>
      [] id = "opensanctions-pep" -> IF subject.kind = "wallet" THEN <<>> ELSE screenNamesAgainstPep(entries)
      [] OTHER -> Joined(IF subject.kind = "wallet" THEN <<>> ELSE screenNamesAgainstEntries(entries),
                         screenWalletAgainstSdn(entries))

aggregateVerdict(severities) == IF "match" \in severities THEN "match"
                                ELSE IF "potential-match" \in severities THEN "potential-match" ELSE "clear"
Severities(matches) == {matches[i].severity : i \in DOMAIN matches}

\* The best of the matches by their rounded scores, so many at most; of equal
\* ones the first found, as the sort is stable.
Better(ms, i, j) == ms[i].score > ms[j].score \/ (ms[i].score = ms[j].score /\ i < j)
Place(ms, i) == Cardinality({j \in DOMAIN ms : Better(ms, j, i)}) + 1
Kept(ms) ==
    LET n == IF Cardinality(DOMAIN ms) < MAX_MATCHES_PER_SOURCE THEN Cardinality(DOMAIN ms) ELSE MAX_MATCHES_PER_SOURCE
    IN  [k \in 1 .. n |-> ms[CHOOSE i \in DOMAIN ms : Place(ms, i) = k]]

\* The downloads of the snapshots become the list versions L1, L2, ... in
\* the order of the panel; OFAC's has two.
Downloads(i) == IF inputs[i].gap THEN 0 ELSE IF SOURCE_IDS[i] = "ofac-sdn" THEN 2 ELSE 1
FirstRef(i)  == LET n[k \in 1 .. i] == IF k = 1 THEN 1 ELSE n[k - 1] + Downloads(k - 1) IN n[i]
RefsOf(i)    == FirstRef(i) .. FirstRef(i) + Downloads(i) - 1

\* The result of one source.
SourceResult(i) ==
    IF inputs[i].gap THEN [id |-> SOURCE_IDS[i], status |-> "gap", refs |-> {}, matches |-> <<>>, verdict |-> "none"]
    ELSE LET kept == Kept(AllMatches(SOURCE_IDS[i], inputs[i].entries)) IN
         [id |-> SOURCE_IDS[i], status |-> "screened", refs |-> RefsOf(i), matches |-> kept,
          verdict |-> aggregateVerdict(Severities(kept))]

screenSubject ==
    LET per == [i \in DOMAIN inputs |-> SourceResult(i)] IN
    [panel |-> SOURCE_IDS, per |-> per,
     versions |-> UNION {{[id |-> r, source |-> SOURCE_IDS[i]] : r \in RefsOf(i)} : i \in DOMAIN inputs},
     complete |-> \A i \in DOMAIN per : per[i].status = "screened",
     verdict |-> aggregateVerdict(UNION {Severities(per[i].matches) : i \in DOMAIN per})]

Screen ==
    /\ screening = {}
    /\ screening' = {screenSubject}
    /\ UNCHANGED <<subject, inputs>>

ScreenNext == Screen

-----------------------------------------------------------------------------
(* Verification.                                                           *)

CoversPanel(r, expected) ==
    LET ids == {r.per[i].id : i \in DOMAIN r.per}
        panel == {r.panel[i] : i \in DOMAIN r.panel}
    IN  ids = panel /\ expected \subseteq panel
        /\ Cardinality(panel) = Len(r.panel) /\ Cardinality(ids) = Len(r.per)

verifyScreening(r, expected) ==
    LET screened == {i \in DOMAIN r.per : r.per[i].status = "screened"}
        derived(i) == {severityForMatch(r.per[i].matches[k].method, r.per[i].matches[k].score) : k \in DOMAIN r.per[i].matches}
    IN  /\ \A i \in screened :
              /\ r.per[i].refs # {}
              /\ \A ref \in r.per[i].refs : [id |-> ref, source |-> r.per[i].id] \in r.versions
              /\ \A k \in DOMAIN r.per[i].matches :
                    LET m == r.per[i].matches[k] IN
                    severityForMatch(m.method, m.score) \in {m.severity} \ {"none"}
              /\ r.per[i].verdict = aggregateVerdict(derived(i))
        /\ CoversPanel(r, expected)
        /\ r.complete = (r.per # <<>> /\ screened = DOMAIN r.per /\ Len(r.panel) = Cardinality({r.per[i].id : i \in DOMAIN r.per}))
        /\ r.verdict = aggregateVerdict(UNION {derived(i) : i \in screened})

-----------------------------------------------------------------------------
(* Properties.                                                             *)

Expected == {SOURCE_IDS[i] : i \in DOMAIN SOURCE_IDS}

\* Some score that was found is rounded up to a threshold it does not reach.
RoundedAcross(x) == \E t \in {MATCH_THRESHOLD, POTENTIAL_THRESHOLD, ONE} : x < t /\ round6(x) >= t
SomeRounded == \E i \in DOMAIN inputs : LET entries == inputs[i].entries IN
                   \E k \in Hits(entries) : RoundedAcross(bestNameMatch(entries[k]))

\* A delivered report passes verification, which derives each severity, each
\* verdict and completeness again, from the recorded scores: unless one of
\* those was rounded up to a threshold.
VerifiesUnlessRounded == \A r \in screening : verifyScreening(r, Expected) \/ SomeRounded

\* Keeping only so many matches per source never softens the verdict: it is
\* the one all matches together give.  The exception is the same: the best
\* are chosen by their rounded scores, and one that was rounded up may take
\* the place of one that did reach the threshold.
TruncationKeepsVerdict ==
    \A r \in screening :
        \/ r.verdict = aggregateVerdict(UNION {Severities(AllMatches(SOURCE_IDS[i], inputs[i].entries)) :
                                               i \in {k \in DOMAIN inputs : ~inputs[k].gap}})
        \/ SomeRounded

\* A delivered report with one thing changed to look better: a source left
\* out, a gap passed over, a severity or the verdict lowered, a list version
\* dropped.
Edits(r) ==
    {[r EXCEPT !.per = RemoveAt(@, i)] : i \in DOMAIN r.per}
    \cup {[r EXCEPT !.per = RemoveAt(@, i), !.panel = RemoveAt(@, i)] : i \in DOMAIN r.per}
    \cup {[r EXCEPT !.complete = TRUE] : x \in {y \in {1} : ~r.complete}}
    \cup {[r EXCEPT !.verdict = v] : v \in {"clear", "potential-match"} \ {r.verdict}}
    \cup {[r EXCEPT !.versions = @ \ {v}] : v \in r.versions}
    \cup UNION {{[r EXCEPT !.per[i].matches[k].severity = "info"] :
                    k \in {x \in DOMAIN r.per[i].matches : r.per[i].matches[x].severity # "info"}} : i \in DOMAIN r.per}

\* No such edit passes the verification.
SingleEditIsCaught == \A r \in screening : \A e \in Edits(r) : ~verifyScreening(e, Expected)

\* A fuzzy hit on the politically-exposed-persons list never blocks by
\* itself: a verdict of match rests on an exact name, a listed wallet or a
\* sanctions list.
PepNeverBlocksAlone ==
    \A r \in screening : r.verdict = "match" =>
        \/ subject.wallet
        \/ \E i \in DOMAIN inputs : ~inputs[i].gap /\ \E k \in DOMAIN inputs[i].entries :
              LET best == bestNameMatch(inputs[i].entries[k]) IN
              best >= ONE \/ (SOURCE_IDS[i] = "ofac-sdn" /\ best >= MATCH_THRESHOLD)

Strings == UNION {[1 .. n -> {1, 2}] : n \in 0 .. 4}
\* Jaro-Winkler is a score: between 0 and 1, 1 for equal strings only, and
\* whichever of the two names is the subject's, though characters are matched
\* greedily from the left of one of them.
JaroWinklerIsAScore ==
    screening = {} /\ inputs = [i \in DOMAIN SOURCE_IDS |-> GapInput] =>
        \A s, t \in Strings : LET x == jaroWinkler(s, t)  y == jaroWinkler(t, s) IN
            /\ 0 <= x.num /\ x.num <= x.den
            /\ x.num = x.den <=> s = t /\ s # <<>>
            /\ x.num * y.den = y.num * x.den
=============================================================================
