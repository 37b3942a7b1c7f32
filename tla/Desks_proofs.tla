---------------------------- MODULE Desks_proofs ----------------------------
(***************************************************************************)
(* Proofs about the desks that hand out sealed results (MCDesks).          *)
(*                                                                         *)
(* A step of the composition is a step of one desk, or leaves it alone, so *)
(* that each desk is reasoned about by itself: ReviewBot and Evaluator,    *)
(* sponsored posts, the oracle, EvalBot and the security audit.            *)
(***************************************************************************)
EXTENDS MCDesks, FiniteSetTheorems, TLAPS

-----------------------------------------------------------------------------
(* The reference agents: ReviewBot.                                        *)

LEMMA ReviewPart == MCSpec => (ReviewInit \/ RestReview) /\ [][ReviewNext]_reviewVars
<1>1. MCInit => ReviewInit \/ RestReview
  BY Zenon DEF MCInit, DesksInit, RestDesks
<1>2. [MCNext]_mcVars => [ReviewNext]_reviewVars
  BY Zenon DEF MCNext, DesksNext, mcVars, deskVars
<1> QED
  BY <1>1, <1>2, PTL DEF MCSpec

AttemptForm(x) == x = [at |-> x.at, jobs |-> x.jobs, review |-> x.review, hash |-> x.hash]
ReviewForm ==
  /\ order \in [ReviewJobs -> {"new", "vetted", "paid", "completed", "failed"}]
  /\ rail \in [ReviewJobs -> {"pay-dem", "pay-x402"}]
  /\ attestation = [j \in ReviewJobs |-> attestation[j]]
  /\ attempt = [a \in Attempts |-> attempt[a]]
  /\ \A a \in Attempts : AttemptForm(attempt[a])

PostsFor(j) == {p \in postings : p.job = j}

(* A call serves a job the buyer called it for, under a bound login; what  *)
(* it has posted is on record, and the state it hashed held the review.    *)
Sees(d) == \E r \in d.ghStateHash : r.id = d.reviewId /\ r.author = Bot
CallInv ==
  /\ \A j \in ReviewJobs : order[j] \in {"vetted", "paid", "completed"} => bound = Bot
  /\ \A a \in Attempts, j \in ReviewJobs : Serving(a, j) => bound = Bot
  /\ \A a \in Attempts, j \in ReviewJobs :
        Serving(a, j) /\ attempt[a].at \in {"anchoring", "delivered"} => \E p \in postings : p.job = j
  /\ \A a \in Attempts : attempt[a].at = "anchoring" =>
        Sees([reviewId |-> attempt[a].review, ghStateHash |-> attempt[a].hash])
  /\ \A j \in ReviewJobs : \A d \in attestation[j] : Sees(d) /\ bound = Bot /\ \E p \in postings : p.job = j
  /\ \A j \in ReviewJobs : order[j] = "completed" => \E p \in postings : p.job = j

(* Of a job whose calls never overlapped, whose anchors held and whose     *)
(* review nobody deleted: one call of it is under way at most, the one     *)
(* that generates finds nothing posted, and what was posted is still on    *)
(* the pull request, and about to be anchored or anchored.                 *)
Calm(j) == j \notin anchorFailed \cup excusedJobs
StillThere(p) == [id |-> p.id, author |-> Bot, job |-> {p.job}] \in reviews
Accounted(p) ==
  \/ \E a \in Attempts : Serving(a, p.job) /\ attempt[a].at = "anchoring"
  \/ \E d \in attestation[p.job] : d.reviewId = p.id
CalmInv ==
  \A j \in ReviewJobs : Calm(j) =>
    /\ \A a, b \in Running(j) : a = b
    /\ \A a \in Running(j) : attempt[a].at = "generating" => PostsFor(j) = {}
    /\ \A a \in Running(j), p \in PostsFor(j) : attempt[a].review = p.id
    /\ \A p, q \in PostsFor(j) : p = q
    /\ \A p \in PostsFor(j) : StillThere(p) /\ Accounted(p)
ReviewsInv == ReviewForm /\ CallInv /\ CalmInv

LEMMA ReviewStarts == ReviewInit \/ RestReview => ReviewsInv
<1> SUFFICES ASSUME ReviewInit \/ RestReview PROVE ReviewsInv
  OBVIOUS
<1>1. /\ order \in [ReviewJobs -> {"new", "failed"}] /\ rail \in [ReviewJobs -> {"pay-dem", "pay-x402"}]
      /\ postings = {} /\ attestation = [j \in ReviewJobs |-> {}]
      /\ attempt = [a \in Attempts |-> IdleAttempt]
  BY DEF ReviewInit, RestReview
<1>2. ReviewForm
  BY <1>1 DEF ReviewForm, AttemptForm, IdleAttempt
<1>3. \A a \in Attempts : attempt[a].at = "idle" /\ attempt[a].jobs = {}
  BY <1>1 DEF IdleAttempt
<1>4. CallInv
  BY <1>1, <1>3 DEF CallInv, Serving
<1>5. CalmInv
  BY <1>1, <1>3 DEF CalmInv, Running, PostsFor
<1> QED
  BY <1>2, <1>4, <1>5 DEF ReviewsInv

(* What CalmInv speaks of did not move, and no review was deleted.         *)
LEMMA CalmKeeps ==
  ASSUME CalmInv, UNCHANGED <<attestation, attempt, postings, anchorFailed, excusedJobs>>,
         reviews \subseteq reviews'
  PROVE  CalmInv'
<1>1. \A j \in ReviewJobs : /\ Calm(j)' = Calm(j)
                            /\ Running(j)' = Running(j)
                            /\ PostsFor(j)' = PostsFor(j)
  BY DEF Calm, Running, Serving, PostsFor
<1>2. \A p : /\ StillThere(p) => StillThere(p)'
             /\ Accounted(p)' = Accounted(p)
  BY DEF StillThere, Accounted, Serving
<1> QED
  BY <1>1, <1>2 DEF CalmInv

(* The buyer's side: an order moves, the calls of its work do not.         *)
LEMMA OrderKeeps ==
  ASSUME ReviewsInv, NEW j \in ReviewJobs, NEW s \in {"vetted", "paid", "completed", "failed"},
         order' = [order EXCEPT ![j] = s],
         UNCHANGED <<bound, rail, reviews, attestation, attempt, postings, anchorFailed, excusedJobs>>,
         s \in {"vetted", "paid", "completed"} => bound = Bot,
         s = "completed" => \E p \in postings : p.job = j
  PROVE  ReviewsInv'
<1>1. ReviewForm'
  BY DEF ReviewsInv, ReviewForm
<1>2. \A i \in ReviewJobs : order'[i] = IF i = j THEN s ELSE order[i]
  BY DEF ReviewsInv, ReviewForm
<1>3. CallInv'
  BY <1>2 DEF ReviewsInv, CallInv, Serving
<1>4. CalmInv'
  BY CalmKeeps DEF ReviewsInv
<1> QED
  BY <1>1, <1>3, <1>4 DEF ReviewsInv

LEMMA VetKeeps == ASSUME ReviewsInv, NEW j \in ReviewJobs, Vet(j) PROVE ReviewsInv'
<1> DEFINE s == IF bound = Bot THEN "vetted" ELSE "failed"
<1>1. /\ order' = [order EXCEPT ![j] = s]
      /\ UNCHANGED <<bound, rail, reviews, attestation, attempt, postings, anchorFailed, excusedJobs>>
  BY DEF Vet
<1>2. s \in {"vetted", "failed"} /\ (s = "vetted" => bound = Bot)
  OBVIOUS
<1> HIDE DEF s
<1> QED
  BY <1>1, <1>2, OrderKeeps

LEMMA PayDemKeeps == ASSUME ReviewsInv, NEW j \in ReviewJobs, PayDem(j) PROVE ReviewsInv'
<1>1. /\ order[j] = "vetted" /\ order' = [order EXCEPT ![j] = "paid"]
      /\ UNCHANGED <<bound, rail, reviews, attestation, attempt, postings, anchorFailed, excusedJobs>>
  BY DEF PayDem
<1>2. bound = Bot
  BY <1>1 DEF ReviewsInv, CallInv
<1> QED
  BY <1>1, <1>2, OrderKeeps

(* A delivery that returned was posted, whichever call posted it.          *)
LEMMA SettleKeeps ==
  ASSUME ReviewsInv, NEW a \in Attempts, NEW j \in ReviewJobs, WorkDelivered(a, j),
         order' = [order EXCEPT ![j] = IF OnGitHub THEN "completed" ELSE "failed"],
         UNCHANGED <<bound, rail, reviews, attestation, attempt, postings, anchorFailed, excusedJobs>>
  PROVE  ReviewsInv'
<1> DEFINE s == IF OnGitHub THEN "completed" ELSE "failed"
<1>1. s \in {"completed", "failed"} /\ order' = [order EXCEPT ![j] = s]
  OBVIOUS
<1>2. bound = Bot /\ \E p \in postings : p.job = j
  BY DEF WorkDelivered, ReviewsInv, CallInv
<1> HIDE DEF s
<1> QED
  BY <1>1, <1>2, OrderKeeps

(* A call moves.                                                           *)
LEMMA AttemptMoves ==
  ASSUME ReviewForm, NEW a \in Attempts, NEW x, AttemptForm(x), attempt' = [attempt EXCEPT ![a] = x]
  PROVE  /\ attempt' = [b \in Attempts |-> attempt'[b]] /\ attempt'[a] = x
         /\ \A b \in Attempts : b # a => attempt'[b] = attempt[b]
         /\ \A b \in Attempts : AttemptForm(attempt'[b])
BY DEF ReviewForm

LEMMA ReviewThrows ==
  ASSUME ReviewsInv, NEW a \in Attempts, attempt' = [attempt EXCEPT ![a].at = "thrown"],
         \/ attempt[a].at = "delivered" /\ UNCHANGED anchorFailed
         \/ \E j \in ReviewJobs : Serving(a, j) /\ anchorFailed' = anchorFailed \cup {j},
         UNCHANGED <<bound, rail, order, reviews, attestation, postings, excusedJobs>>
  PROVE  ReviewsInv'
<1> DEFINE x == [attempt[a] EXCEPT !.at = "thrown"]
<1>1. AttemptForm(attempt[a])
  BY DEF ReviewsInv, ReviewForm
<1>2. AttemptForm(x) /\ x.at = "thrown" /\ x.jobs = attempt[a].jobs
  BY <1>1 DEF AttemptForm
<1>3. attempt' = [attempt EXCEPT ![a] = x]
  OBVIOUS
<1> HIDE DEF x
<1>4. /\ attempt' = [b \in Attempts |-> attempt'[b]] /\ attempt'[a] = x
      /\ \A b \in Attempts : b # a => attempt'[b] = attempt[b]
      /\ \A b \in Attempts : AttemptForm(attempt'[b])
  BY <1>2, <1>3, AttemptMoves DEF ReviewsInv
<1>5. ReviewForm'
  BY <1>4 DEF ReviewsInv, ReviewForm
<1>6. CallInv'
  BY <1>2, <1>4 DEF ReviewsInv, CallInv, Serving
<1>7. ASSUME NEW j \in ReviewJobs, Calm(j)'
      PROVE  /\ Calm(j) /\ Running(j)' \subseteq Running(j)
             /\ \A b \in Running(j)' : attempt'[b] = attempt[b]
             /\ ~(Serving(a, j) /\ attempt[a].at = "anchoring")
  BY <1>2, <1>4, <1>7 DEF Calm, Running, Serving
<1>8. CalmInv'
  <2> SUFFICES ASSUME NEW j \in ReviewJobs, Calm(j)'
               PROVE  /\ \A c, b \in Running(j)' : c = b
                      /\ \A b \in Running(j)' : attempt'[b].at = "generating" => PostsFor(j)' = {}
                      /\ \A b \in Running(j)', p \in PostsFor(j)' : attempt'[b].review = p.id
                      /\ \A p, q \in PostsFor(j)' : p = q
                      /\ \A p \in PostsFor(j)' : StillThere(p)' /\ Accounted(p)'
    BY DEF CalmInv
  <2>1. PostsFor(j)' = PostsFor(j)
    BY DEF PostsFor
  <2>2. \A p \in PostsFor(j) : StillThere(p) /\ Accounted(p) /\ p.job = j
    BY <1>7 DEF ReviewsInv, CalmInv, PostsFor
  <2>3. \A p \in PostsFor(j) : StillThere(p)' /\ Accounted(p)'
    BY <1>4, <1>7, <2>2 DEF StillThere, Accounted, Serving
  <2> QED
    BY <1>7, <2>1, <2>3 DEF ReviewsInv, CalmInv
<1> QED
  BY <1>5, <1>6, <1>8 DEF ReviewsInv

LEMMA SettleDemKeeps ==
  ASSUME ReviewsInv, NEW a \in Attempts, NEW j \in ReviewJobs, SettleDem(a, j)
  PROVE  ReviewsInv'
BY SettleKeeps DEF SettleDem

LEMMA SettleX402Keeps ==
  ASSUME ReviewsInv, NEW a \in Attempts, NEW j \in ReviewJobs, SettleX402(a, j)
  PROVE  ReviewsInv'
<1>1. /\ WorkDelivered(a, j)
      /\ UNCHANGED <<bound, rail, reviews, attestation, postings, anchorFailed, excusedJobs>>
  BY DEF SettleX402
<1>2. CASE /\ order' = [order EXCEPT ![j] = IF OnGitHub THEN "completed" ELSE "failed"]
           /\ UNCHANGED attempt
  BY <1>1, <1>2, SettleKeeps
<1>3. CASE attempt' = [attempt EXCEPT ![a].at = "thrown"] /\ UNCHANGED order
  <2>1. attempt[a].at = "delivered"
    BY <1>1 DEF WorkDelivered
  <2> QED
    BY <1>1, <1>3, <2>1, ReviewThrows
<1> QED
  BY <1>2, <1>3 DEF SettleX402

LEMMA AnchorThrowsKeeps ==
  ASSUME ReviewsInv, NEW a \in Attempts, NEW j \in ReviewJobs, AnchorThrows(a, j)
  PROVE  ReviewsInv'
<1>1. /\ attempt' = [attempt EXCEPT ![a].at = "thrown"]
      /\ Serving(a, j) /\ anchorFailed' = anchorFailed \cup {j}
      /\ UNCHANGED <<bound, rail, order, reviews, attestation, postings, excusedJobs>>
  BY DEF AnchorThrows
<1> QED
  BY <1>1, ReviewThrows

LEMMA VisitorKeeps == ASSUME ReviewsInv, VisitorReviews PROVE ReviewsInv'
<1>1. /\ reviews \subseteq reviews'
      /\ UNCHANGED <<bound, rail, order, attestation, attempt, postings, anchorFailed, excusedJobs>>
  BY DEF VisitorReviews
<1>2. ReviewForm'
  BY <1>1 DEF ReviewsInv, ReviewForm
<1>3. CallInv'
  BY <1>1 DEF ReviewsInv, CallInv, Serving
<1>4. CalmInv'
  BY <1>1, CalmKeeps DEF ReviewsInv
<1> QED
  BY <1>2, <1>3, <1>4 DEF ReviewsInv

(* A deleted review excuses its job, and is not the review of another.     *)
LEMMA DeletedKeeps ==
  ASSUME ReviewsInv, NEW r \in reviews, ReviewDeleted(r)
  PROVE  ReviewsInv'
<1>1. /\ reviews' = reviews \ {r} /\ excusedJobs' = excusedJobs \cup r.job
      /\ UNCHANGED <<bound, rail, order, attestation, attempt, postings, anchorFailed>>
  BY DEF ReviewDeleted
<1>2. ReviewForm'
  BY <1>1 DEF ReviewsInv, ReviewForm
<1>3. CallInv'
  BY <1>1 DEF ReviewsInv, CallInv, Serving
<1>4. \A j \in ReviewJobs : /\ Calm(j)' => Calm(j) /\ j \notin r.job
                            /\ Running(j)' = Running(j)
                            /\ PostsFor(j)' = PostsFor(j)
  BY <1>1 DEF Calm, Running, Serving, PostsFor
<1>5. \A p : /\ StillThere(p) /\ p.job \notin r.job => StillThere(p)'
             /\ Accounted(p)' = Accounted(p)
  BY <1>1 DEF StillThere, Accounted, Serving
<1>6. \A j : \A p \in PostsFor(j) : p.job = j
  BY DEF PostsFor
<1>7. CalmInv'
  <2> SUFFICES ASSUME NEW j \in ReviewJobs, Calm(j)'
               PROVE  /\ \A c, b \in Running(j)' : c = b
                      /\ \A b \in Running(j)' : attempt'[b].at = "generating" => PostsFor(j)' = {}
                      /\ \A b \in Running(j)', p \in PostsFor(j)' : attempt'[b].review = p.id
                      /\ \A p, q \in PostsFor(j)' : p = q
                      /\ \A p \in PostsFor(j)' : StillThere(p)' /\ Accounted(p)'
    BY DEF CalmInv
  <2>1. /\ Calm(j) /\ j \notin r.job /\ attempt' = attempt
        /\ Running(j)' = Running(j) /\ PostsFor(j)' = PostsFor(j)
    BY <1>1, <1>4
  <2>2. \A p \in PostsFor(j) : StillThere(p)' /\ Accounted(p)'
    BY <1>5, <1>6, <2>1 DEF ReviewsInv, CalmInv
  <2> QED
    BY <2>1, <2>2 DEF ReviewsInv, CalmInv
<1> QED
  BY <1>2, <1>3, <1>7 DEF ReviewsInv


(* A job a call does not serve, and whose posts and anchor stayed, is as   *)
(* calm as it was.                                                         *)
LEMMA OthersKeep ==
  ASSUME ReviewsInv, NEW a \in Attempts, NEW j \in ReviewJobs, NEW i \in ReviewJobs, i # j, Calm(i),
         attempt'[a].jobs = {j},
         Serving(a, j) \/ attempt[a].at = "idle",
         \A b \in Attempts : b # a => attempt'[b] = attempt[b],
         reviews \subseteq reviews', PostsFor(i)' = PostsFor(i), attestation'[i] = attestation[i]
  PROVE  /\ \A c, b \in Running(i)' : c = b
         /\ \A b \in Running(i)' : attempt'[b].at = "generating" => PostsFor(i)' = {}
         /\ \A b \in Running(i)', p \in PostsFor(i)' : attempt'[b].review = p.id
         /\ \A p, q \in PostsFor(i)' : p = q
         /\ \A p \in PostsFor(i)' : StillThere(p)' /\ Accounted(p)'
<1>1. Running(i)' = Running(i) /\ \A b \in Running(i) : attempt'[b] = attempt[b]
  BY DEF Running, Serving
<1>2. \A p \in PostsFor(i) : StillThere(p) /\ Accounted(p) /\ p.job = i
  BY DEF ReviewsInv, CalmInv, PostsFor
<1>3. \A p \in PostsFor(i) : StillThere(p)' /\ Accounted(p)'
  <2> SUFFICES ASSUME NEW p \in PostsFor(i) PROVE StillThere(p)' /\ Accounted(p)'
    OBVIOUS
  <2>1. StillThere(p)'
    BY <1>2 DEF StillThere
  <2>2. CASE \E d \in attestation[p.job] : d.reviewId = p.id
    BY <1>2, <2>1, <2>2 DEF Accounted
  <2>3. CASE \E b \in Attempts : Serving(b, p.job) /\ attempt[b].at = "anchoring"
    <3>1. PICK b \in Attempts : Serving(b, i) /\ attempt[b].at = "anchoring"
      BY <1>2, <2>3
    <3>2. b # a
      BY <3>1 DEF Serving
    <3>3. Serving(b, i)' /\ attempt'[b].at = "anchoring"
      BY <3>1, <3>2 DEF Serving
    <3> QED
      BY <1>2, <2>1, <3>3 DEF Accounted
  <2> QED
    BY <1>2, <2>2, <2>3 DEF Accounted
<1> QED
  BY <1>1, <1>3 DEF ReviewsInv, CalmInv

(* A call starts to generate only where nothing was posted: what was is    *)
(* still there and anchored, and would be delivered again.                 *)
LEMMA NothingPosted ==
  ASSUME ReviewsInv, NEW j \in ReviewJobs, Calm(j), Running(j) = {}, ~Reusable(j)
  PROVE  PostsFor(j) = {}
<1> SUFFICES ASSUME NEW p \in PostsFor(j) PROVE FALSE
  OBVIOUS
<1>1. StillThere(p) /\ Accounted(p) /\ p.job = j
  BY DEF ReviewsInv, CalmInv, PostsFor
<1>2. \E d \in attestation[j] : d.reviewId = p.id
  BY <1>1 DEF Accounted, Running
<1> QED
  BY <1>1, <1>2 DEF StillThere, Reusable

LEMMA StartKeeps ==
  ASSUME ReviewsInv, NEW a \in Attempts, NEW j \in ReviewJobs, DeliverStart(a, j)
  PROVE  ReviewsInv'
<1> DEFINE s == IF Reusable(j) THEN "delivered" ELSE "generating"
           x == [attempt[a] EXCEPT !.jobs = {j}, !.at = s]
<1>1. /\ Called(j) /\ attempt[a].at = "idle"
      /\ attempt' = [attempt EXCEPT ![a] = x]
      /\ excusedJobs' = IF Running(j) # {} /\ ~Reusable(j) THEN excusedJobs \cup {j} ELSE excusedJobs
      /\ UNCHANGED <<bound, rail, order, reviews, attestation, postings, anchorFailed>>
  BY DEF DeliverStart
<1>2. AttemptForm(attempt[a])
  BY DEF ReviewsInv, ReviewForm
<1>4. /\ s \in {"delivered", "generating"} /\ (Reusable(j) => s = "delivered")
      /\ (~Reusable(j) => s = "generating")
  OBVIOUS
<1>11. x = [attempt[a] EXCEPT !.jobs = {j}, !.at = s]
  OBVIOUS
<1> HIDE DEF s, x
<1>3. AttemptForm(x) /\ x.at = s /\ x.jobs = {j}
  BY <1>2, <1>11, Zenon DEF AttemptForm
<1>5. /\ attempt' = [b \in Attempts |-> attempt'[b]] /\ attempt'[a] = x
      /\ \A b \in Attempts : b # a => attempt'[b] = attempt[b]
      /\ \A b \in Attempts : AttemptForm(attempt'[b])
  BY <1>1, <1>3, AttemptMoves DEF ReviewsInv
<1>6. ReviewForm'
  BY <1>1, <1>5 DEF ReviewsInv, ReviewForm
<1>7. bound = Bot
  BY <1>1 DEF ReviewsInv, CallInv, Called
<1>8. s = "delivered" => \E p \in postings : p.job = j
  BY <1>4 DEF ReviewsInv, CallInv, Reusable
<1>9. CallInv'
  BY <1>1, <1>3, <1>4, <1>5, <1>7, <1>8 DEF ReviewsInv, CallInv, Serving
<1>10. CalmInv'
  <2> SUFFICES ASSUME NEW i \in ReviewJobs, Calm(i)'
               PROVE  /\ \A c, b \in Running(i)' : c = b
                      /\ \A b \in Running(i)' : attempt'[b].at = "generating" => PostsFor(i)' = {}
                      /\ \A b \in Running(i)', p \in PostsFor(i)' : attempt'[b].review = p.id
                      /\ \A p, q \in PostsFor(i)' : p = q
                      /\ \A p \in PostsFor(i)' : StillThere(p)' /\ Accounted(p)'
    BY DEF CalmInv
  <2>1. PostsFor(i)' = PostsFor(i) /\ Calm(i) /\ reviews' = reviews
    BY <1>1 DEF PostsFor, Calm
  <2>2. CASE i # j
    BY <1>1, <1>3, <1>5, <2>1, <2>2, OthersKeep
  <2>3. ASSUME i = j PROVE Running(j) = {} \/ Reusable(j)
    BY <1>1, <2>3 DEF Calm
  <2>4. \A p \in PostsFor(j) : Accounted(p) => Accounted(p)'
    BY <1>1, <1>5 DEF Accounted, Serving
  <2>5. \A p \in PostsFor(j) : StillThere(p)' = StillThere(p)
    BY <1>1 DEF StillThere
  <2>6. ASSUME i = j, Reusable(j) PROVE Running(j)' = Running(j) /\ \A b \in Running(j) : attempt'[b] = attempt[b]
    BY <1>1, <1>3, <1>4, <1>5, <2>6 DEF Running, Serving
  <2>7. ASSUME i = j, ~Reusable(j) PROVE Running(j)' \subseteq {a} /\ PostsFor(j) = {}
    <3>1. Running(j) = {} /\ Calm(j)
      BY <2>1, <2>3, <2>7
    <3>2. PostsFor(j) = {}
      BY <2>7, <3>1, NothingPosted
    <3>3. Running(j)' \subseteq {a}
      BY <1>5, <3>1 DEF Running, Serving
    <3> QED
      BY <3>2, <3>3
  <2> QED
    BY <2>1, <2>2, <2>4, <2>5, <2>6, <2>7 DEF ReviewsInv, CalmInv
<1> QED
  BY <1>6, <1>9, <1>10 DEF ReviewsInv


LEMMA PostKeeps ==
  ASSUME ReviewsInv, NEW a \in Attempts, NEW j \in ReviewJobs, PostReview(a, j)
  PROVE  ReviewsInv'
<1> DEFINE n == NextId
           r == [id |-> n, author |-> Bot, job |-> {j}]
           h == reviews'
           x == [attempt[a] EXCEPT !.at = "anchoring", !.review = n, !.hash = h]
<1>1. /\ Serving(a, j) /\ attempt[a].at = "generating"
      /\ reviews' = reviews \cup {r}
      /\ postings' = postings \cup {[id |-> n, job |-> j]}
      /\ attempt' = [attempt EXCEPT ![a] = x]
      /\ UNCHANGED <<bound, rail, order, attestation, anchorFailed, excusedJobs>>
  BY DEF PostReview
<1>2. AttemptForm(attempt[a])
  BY DEF ReviewsInv, ReviewForm
<1>11. x = [attempt[a] EXCEPT !.at = "anchoring", !.review = n, !.hash = h]
  OBVIOUS
<1> HIDE DEF n, h, x
<1>3. AttemptForm(x) /\ x.at = "anchoring" /\ x.jobs = attempt[a].jobs /\ x.review = n /\ x.hash = h
  BY <1>2, <1>11, Zenon DEF AttemptForm
<1>10. x.jobs = {j} /\ x.hash = reviews'
  BY <1>1, <1>3 DEF Serving, h
<1>4. r \in reviews' /\ r.id = n /\ r.author = Bot
  BY <1>1
<1>5. /\ attempt' = [b \in Attempts |-> attempt'[b]] /\ attempt'[a] = x
      /\ \A b \in Attempts : b # a => attempt'[b] = attempt[b]
      /\ \A b \in Attempts : AttemptForm(attempt'[b])
  BY <1>1, <1>3, AttemptMoves DEF ReviewsInv
<1>6. ReviewForm'
  BY <1>1, <1>5 DEF ReviewsInv, ReviewForm
<1>7. [id |-> n, job |-> j] \in postings' /\ postings \subseteq postings'
  BY <1>1
<1>8. CallInv'
  <2>1. \A k \in ReviewJobs : order'[k] \in {"vetted", "paid", "completed"} => bound' = Bot
    BY <1>1 DEF ReviewsInv, CallInv
  <2>2. \A b \in Attempts, k \in ReviewJobs : Serving(b, k)' => bound' = Bot /\ Serving(b, k)
    BY <1>1, <1>5, <1>10 DEF ReviewsInv, CallInv, Serving
  <2>3. \A b \in Attempts, k \in ReviewJobs :
          Serving(b, k)' /\ attempt'[b].at \in {"anchoring", "delivered"} => \E p \in postings' : p.job = k
    BY <1>3, <1>5, <1>7, <1>10, <2>2 DEF ReviewsInv, CallInv, Serving
  <2>4. \A b \in Attempts : attempt'[b].at = "anchoring" =>
          Sees([reviewId |-> attempt'[b].review, ghStateHash |-> attempt'[b].hash])
    BY <1>3, <1>4, <1>5, <1>10 DEF ReviewsInv, CallInv, Sees
  <2>5. \A k \in ReviewJobs : \A d \in attestation'[k] :
          Sees(d) /\ bound' = Bot /\ \E p \in postings' : p.job = k
    BY <1>1, <1>7 DEF ReviewsInv, CallInv
  <2>6. \A k \in ReviewJobs : order'[k] = "completed" => \E p \in postings' : p.job = k
    BY <1>1, <1>7 DEF ReviewsInv, CallInv
  <2> QED
    BY <2>1, <2>2, <2>3, <2>4, <2>5, <2>6 DEF CallInv, Sees
<1>9. CalmInv'
  <2> SUFFICES ASSUME NEW i \in ReviewJobs, Calm(i)'
               PROVE  /\ \A c, b \in Running(i)' : c = b
                      /\ \A b \in Running(i)' : attempt'[b].at = "generating" => PostsFor(i)' = {}
                      /\ \A b \in Running(i)', p \in PostsFor(i)' : attempt'[b].review = p.id
                      /\ \A p, q \in PostsFor(i)' : p = q
                      /\ \A p \in PostsFor(i)' : StillThere(p)' /\ Accounted(p)'
    BY DEF CalmInv
  <2>1. Calm(i) /\ reviews \subseteq reviews' /\ attestation' = attestation
    BY <1>1 DEF Calm
  <2>2. CASE i # j
    <3>1. PostsFor(i)' = PostsFor(i)
      BY <1>1, <2>2 DEF PostsFor
    <3> QED
      BY <1>1, <1>5, <1>10, <2>1, <2>2, <3>1, OthersKeep
  <2>3. CASE i = j
    <3>1. a \in Running(j) /\ PostsFor(j) = {} /\ \A b \in Running(j) : b = a
      BY <1>1, <2>1, <2>3 DEF ReviewsInv, CalmInv, Running
    <3>2. Running(j)' \subseteq {a}
      BY <1>5, <3>1 DEF Running, Serving
    <3>3. PostsFor(j)' = {[id |-> n, job |-> j]}
      BY <1>1, <3>1 DEF PostsFor
    <3>4. attempt'[a].at = "anchoring" /\ attempt'[a].review = n /\ Serving(a, j)'
      BY <1>3, <1>5, <1>10 DEF Serving
    <3>5. \A p : p.id = n /\ p.job = j => StillThere(p)' /\ Accounted(p)'
      BY <1>4, <3>4 DEF StillThere, Accounted
    <3> DEFINE q == [id |-> n, job |-> j]
    <3>6. q.id = n /\ q.job = j /\ PostsFor(j)' = {q}
      BY <3>3
    <3> HIDE DEF q
    <3> QED
      BY <2>3, <3>2, <3>4, <3>5, <3>6
  <2> QED
    BY <2>2, <2>3
<1> QED
  BY <1>6, <1>8, <1>9 DEF ReviewsInv

LEMMA AnchorKeeps ==
  ASSUME ReviewsInv, NEW a \in Attempts, NEW j \in ReviewJobs, AnchorDelivery(a, j)
  PROVE  ReviewsInv'
<1> DEFINE d == [reviewId |-> attempt[a].review, ghStateHash |-> attempt[a].hash]
           x == [attempt[a] EXCEPT !.at = "delivered"]
<1>1. /\ Serving(a, j) /\ attempt[a].at = "anchoring"
      /\ attestation' = [attestation EXCEPT ![j] = {d}]
      /\ attempt' = [attempt EXCEPT ![a] = x]
      /\ UNCHANGED <<bound, rail, order, reviews, postings, anchorFailed, excusedJobs>>
  BY DEF AnchorDelivery
<1>2. AttemptForm(attempt[a])
  BY DEF ReviewsInv, ReviewForm
<1>3. AttemptForm(x) /\ x.at = "delivered" /\ x.jobs = {j} /\ d.reviewId = attempt[a].review
  BY <1>1, <1>2 DEF AttemptForm, Serving
<1>4. Sees(d) /\ bound = Bot /\ \E p \in postings : p.job = j
  BY <1>1 DEF ReviewsInv, CallInv
<1> HIDE DEF d, x
<1>5. /\ attempt' = [b \in Attempts |-> attempt'[b]] /\ attempt'[a] = x
      /\ \A b \in Attempts : b # a => attempt'[b] = attempt[b]
      /\ \A b \in Attempts : AttemptForm(attempt'[b])
  BY <1>1, <1>3, AttemptMoves DEF ReviewsInv
<1>6. /\ attestation' = [k \in ReviewJobs |-> attestation'[k]] /\ attestation'[j] = {d}
      /\ \A k \in ReviewJobs : k # j => attestation'[k] = attestation[k]
  BY <1>1 DEF ReviewsInv, ReviewForm
<1>7. ReviewForm'
  BY <1>1, <1>5, <1>6 DEF ReviewsInv, ReviewForm
<1>8. CallInv'
  <2>1. \A k \in ReviewJobs : order'[k] \in {"vetted", "paid", "completed"} => bound' = Bot
    BY <1>1 DEF ReviewsInv, CallInv
  <2>2. \A b \in Attempts, k \in ReviewJobs : Serving(b, k)' => bound' = Bot /\ Serving(b, k)
    BY <1>1, <1>3, <1>5 DEF ReviewsInv, CallInv, Serving
  <2>3. \A b \in Attempts, k \in ReviewJobs :
          Serving(b, k)' /\ attempt'[b].at \in {"anchoring", "delivered"} => \E p \in postings' : p.job = k
    BY <1>1, <1>3, <1>4, <1>5, <2>2 DEF ReviewsInv, CallInv, Serving
  <2>4. \A b \in Attempts : attempt'[b].at = "anchoring" =>
          Sees([reviewId |-> attempt'[b].review, ghStateHash |-> attempt'[b].hash])
    BY <1>3, <1>5 DEF ReviewsInv, CallInv
  <2>5. \A k \in ReviewJobs : \A e \in attestation'[k] :
          Sees(e) /\ bound' = Bot /\ \E p \in postings' : p.job = k
    BY <1>1, <1>4, <1>6 DEF ReviewsInv, CallInv
  <2>6. \A k \in ReviewJobs : order'[k] = "completed" => \E p \in postings' : p.job = k
    BY <1>1 DEF ReviewsInv, CallInv
  <2> QED
    BY <2>1, <2>2, <2>3, <2>4, <2>5, <2>6 DEF CallInv, Sees
<1>9. CalmInv'
  <2> SUFFICES ASSUME NEW i \in ReviewJobs, Calm(i)'
               PROVE  /\ \A c, b \in Running(i)' : c = b
                      /\ \A b \in Running(i)' : attempt'[b].at = "generating" => PostsFor(i)' = {}
                      /\ \A b \in Running(i)', p \in PostsFor(i)' : attempt'[b].review = p.id
                      /\ \A p, q \in PostsFor(i)' : p = q
                      /\ \A p \in PostsFor(i)' : StillThere(p)' /\ Accounted(p)'
    BY DEF CalmInv
  <2>1. Calm(i) /\ reviews' = reviews /\ PostsFor(i)' = PostsFor(i)
    BY <1>1 DEF Calm, PostsFor
  <2>2. CASE i # j
    BY <1>1, <1>3, <1>5, <1>6, <2>1, <2>2, OthersKeep
  <2>3. CASE i = j
    <3>1. /\ a \in Running(j) /\ \A b \in Running(j) : b = a
          /\ \A p \in PostsFor(j) : attempt[a].review = p.id /\ StillThere(p)
          /\ \A p, q \in PostsFor(j) : p = q
      BY <1>1, <2>1, <2>3 DEF ReviewsInv, CalmInv, Running
    <3>2. Running(j)' = {}
      BY <1>3, <1>5, <3>1 DEF Running, Serving
    <3>3. \A p \in PostsFor(j) : p.job = j
      BY DEF PostsFor
    <3>4. \A p \in PostsFor(j) : StillThere(p)' /\ Accounted(p)'
      BY <1>3, <1>6, <2>1, <3>1, <3>3 DEF StillThere, Accounted
    <3> QED
      BY <2>1, <2>3, <3>1, <3>2, <3>4
  <2> QED
    BY <2>2, <2>3
<1> QED
  BY <1>7, <1>8, <1>9 DEF ReviewsInv

LEMMA ReviewsInvHolds == MCSpec => []ReviewsInv
<1>1. ReviewsInv /\ [ReviewNext]_reviewVars => ReviewsInv'
  <2> SUFFICES ASSUME ReviewsInv, [ReviewNext]_reviewVars PROVE ReviewsInv'
    OBVIOUS
  <2>1. ASSUME NEW j \in ReviewJobs, Vet(j) \/ PayDem(j) PROVE ReviewsInv'
    BY <2>1, VetKeeps, PayDemKeeps
  <2>2. ASSUME NEW a \in Attempts, NEW j \in ReviewJobs,
               DeliverStart(a, j) \/ PostReview(a, j) \/ AnchorDelivery(a, j)
        PROVE  ReviewsInv'
    BY <2>2, StartKeeps, PostKeeps, AnchorKeeps
  <2>3. ASSUME NEW a \in Attempts, NEW j \in ReviewJobs,
               AnchorThrows(a, j) \/ SettleDem(a, j) \/ SettleX402(a, j)
        PROVE  ReviewsInv'
    BY <2>3, AnchorThrowsKeeps, SettleDemKeeps, SettleX402Keeps
  <2>4. CASE VisitorReviews \/ \E r \in reviews : ReviewDeleted(r)
    BY <2>4, VisitorKeeps, DeletedKeeps
  <2>5. CASE UNCHANGED reviewVars
    <3>1. ReviewForm' /\ CallInv'
      BY <2>5 DEF reviewVars, ReviewsInv, ReviewForm, CallInv, Serving
    <3>2. CalmInv'
      BY <2>5, CalmKeeps DEF reviewVars, ReviewsInv
    <3> QED
      BY <3>1, <3>2 DEF ReviewsInv
  <2> QED
    BY <2>1, <2>2, <2>3, <2>4, <2>5 DEF ReviewNext
<1> QED
  BY <1>1, ReviewPart, ReviewStarts, PTL

(* The reviews' part of ReviewsAreSound: a completed order was posted for  *)
(* and bound, an attestation verifies while the pull request is as it left *)
(* it, and a calm job is reviewed at most once.                            *)
LEMMA ReviewsInvMeans ==
  ASSUME ReviewsInv PROVE CompletedMeansDelivered /\ DeliveryVerifies /\ ReviewedOnce
<1>1. CompletedMeansDelivered
  BY DEF ReviewsInv, CallInv, CompletedMeansDelivered
<1>2. DeliveryVerifies
  BY DEF ReviewsInv, CallInv, Sees, DeliveryVerifies, verifyDelivery
<1>3. ReviewedOnce
  <2> SUFFICES ASSUME NEW j \in ReviewJobs, Calm(j) PROVE Cardinality(PostsFor(j)) <= 1
    BY DEF ReviewedOnce, Calm, PostsFor
  <2>1. \A p, q \in PostsFor(j) : p = q
    BY DEF ReviewsInv, CalmInv
  <2>2. CASE PostsFor(j) = {}
    BY <2>2, FS_EmptySet
  <2>3. CASE PostsFor(j) # {}
    <3>1. PICK p : PostsFor(j) = {p}
      BY <2>1, <2>3
    <3> QED
      BY <3>1, FS_Singleton
  <2> QED
    BY <2>2, <2>3
<1> QED
  BY <1>1, <1>2, <1>3

-----------------------------------------------------------------------------
(* The reference agents: the evaluator.                                    *)

LEMMA EvaluatorPart ==
  MCSpec => /\ (working = "evaluator" /\ EvaluatorInit) \/ (working # "evaluator" /\ RestEvaluator)
            /\ [][working = "evaluator" /\ EvaluatorNext /\ UNCHANGED working]_<<evaluatorVars, working>>
<1>1. MCInit => (working = "evaluator" /\ EvaluatorInit) \/ (working # "evaluator" /\ RestEvaluator)
  BY DEF MCInit, DesksInit, RestDesks, RestSpecialists, SpecialistsInit
<1>2. [MCNext]_mcVars =>
        [working = "evaluator" /\ EvaluatorNext /\ UNCHANGED working]_<<evaluatorVars, working>>
  BY Zenon DEF MCNext, DesksNext, mcVars, deskVars
<1> QED
  BY <1>1, <1>2, PTL DEF MCSpec

(* Checks that ran as far as they could, or could not run at all.          *)
CheckForm(c) == c = [name |-> c.name, passed |-> c.passed] /\ c.passed \in BOOLEAN
Exhausted(e) ==
  \/ e.sandbox = FALSE /\ Gating(e.checks) = {}
  \/ e.sandbox = TRUE /\ Remaining(e) = {}

(* A verdict that follows from its checks.                                 *)
SoundVerdict(e) ==
  /\ e.head # 0
  /\ e.verdict = "approve" =>
       /\ e.sandbox
       /\ FailedChecks(e.checks) = {}
       /\ \A n \in planChecks(e.tree) : [name |-> n, passed |-> TRUE] \in e.checks
  /\ ~e.sandbox <=> e.verdict = "indeterminate"
  /\ ~e.sandbox => Gating(e.checks) = {}

EvaluationForm(e) ==
  e = [at |-> e.at, head |-> e.head, tree |-> e.tree, sandbox |-> e.sandbox, checks |-> e.checks,
       verdict |-> e.verdict, review |-> e.review]
Working == {"cloned", "checking", "advising", "reviewing"}
StageInv(e) ==
  /\ EvaluationForm(e)
  /\ e.at \in Working \cup {"viewed"} => e.head # 0 /\ \A c \in e.checks : CheckForm(c)
  /\ e.at \in {"viewed", "cloned", "advising"} => e.checks = {}
  /\ e.at = "checking" => e.sandbox = TRUE
  /\ e.at = "advising" => e.sandbox = FALSE
  /\ e.at = "reviewing" => Exhausted(e)
  /\ e.at \in {"evaluated", "anchoring", "unanchored"} => SoundVerdict(e)

(* While no anchor was lost after it, the companion on record is the one   *)
(* of the evaluation being anchored, or of the one that was.               *)
AllCompanions == companions \cup withdrawn
CompanionInv ==
  /\ \A att \in evaluated : SoundVerdict(att) /\ att.review \in {0} \cup AllCompanions
  /\ evaluation.at = "anchoring" => evaluated = {} /\ evaluation.review \in {0} \cup AllCompanions
  /\ ~companionLost =>
       /\ evaluated = {} /\ evaluation.at # "anchoring" => AllCompanions = {}
       /\ evaluation.at = "anchoring" => AllCompanions \subseteq {evaluation.review} \ {0}
       /\ \A c, d \in AllCompanions : c = d
WorkspaceInv ==
  workspaces \subseteq cloneFailed \cup (IF evaluation.at \in Working THEN {evaluations} ELSE {})
EvaluatorInv ==
  /\ working = "evaluator" => head \in Nat \ {0} /\ StageInv(evaluation)
  /\ working # "evaluator" => evaluation = NoEvaluation
  /\ CompanionInv /\ WorkspaceInv

LEMMA EvaluatorStarts == EvaluatorInit \/ RestEvaluator => evaluation = NoEvaluation /\ CompanionInv /\ WorkspaceInv
BY DEF EvaluatorInit, RestEvaluator, CompanionInv, AllCompanions, NoEvaluation, WorkspaceInv

(* combineVerdict approves of what ran in a sandbox and did not fail.      *)
LEMMA VerdictFollows ==
  ASSUME NEW e, e.head # 0, Exhausted(e), \A c \in e.checks : CheckForm(c),
         NEW review \in Reviews,
         NEW x, x.head = e.head, x.tree = e.tree, x.sandbox = e.sandbox, x.checks = e.checks,
         x.verdict = combineVerdict(e.sandbox, e.checks, review)
  PROVE  SoundVerdict(x)
<1>1. review \in {"approve", "request-changes", "comment"}
  BY DEF Reviews, LlmVerdicts, HeuristicVerdicts
<1>2. CASE e.sandbox = FALSE
  <2>1. x.verdict = "indeterminate"
    BY <1>2 DEF combineVerdict
  <2>2. Gating(e.checks) = {}
    BY <1>2 DEF Exhausted
  <2> QED
    BY <1>2, <2>1, <2>2 DEF SoundVerdict
<1>3. CASE e.sandbox = TRUE
  <2>1. x.verdict # "indeterminate" /\ (x.verdict = "approve" => FailedChecks(e.checks) = {})
    BY <1>1, <1>3 DEF combineVerdict
  <2>2. Remaining(e) = {}
    BY <1>3 DEF Exhausted
  <2>3. ASSUME FailedChecks(e.checks) = {}, NEW n \in planChecks(e.tree)
        PROVE  [name |-> n, passed |-> TRUE] \in e.checks
    <3>1. n \in {c.name : c \in e.checks}
      BY <2>2, <2>3 DEF Remaining
    <3>2. PICK c \in e.checks : c.name = n
      BY <3>1
    <3>3. n \in GatingChecks
      BY DEF planChecks, GatingChecks
    <3>4. c \in Gating(e.checks)
      BY <3>2, <3>3 DEF Gating
    <3>5. c.passed
      BY <2>3, <3>4 DEF FailedChecks
    <3>6. c = [name |-> n, passed |-> TRUE]
      BY <3>2, <3>5 DEF CheckForm
    <3> QED
      BY <3>2, <3>6
  <2> QED
    BY <1>3, <2>1, <2>3 DEF SoundVerdict
<1> QED
  BY <1>2, <1>3 DEF Exhausted

(* A step that is neither a delivery nor an anchor leaves the companions.  *)
LEMMA CompanionsStay ==
  ASSUME CompanionInv, UNCHANGED <<companions, evaluated, withdrawn, companionLost>>,
         evaluation.at # "anchoring", evaluation'.at # "anchoring"
  PROVE  CompanionInv'
BY DEF CompanionInv, AllCompanions

Evaluating == head \in Nat \ {0} /\ StageInv(evaluation) /\ CompanionInv /\ WorkspaceInv

LEMMA FetchKeeps == ASSUME Evaluating, fetchPr PROVE Evaluating'
<1> DEFINE x == [NoEvaluation EXCEPT !.at = "viewed", !.head = head]
<1>1. /\ evaluation.at \in {"idle", "delivered", "thrown", "unanchored"}
      /\ evaluation' = x
      /\ UNCHANGED <<head, companions, evaluated, workspaces, cloneFailed, withdrawn, companionLost>>
  BY DEF fetchPr
<1>6. x = [NoEvaluation EXCEPT !.at = "viewed", !.head = head]
  OBVIOUS
<1> HIDE DEF x
<1>2. EvaluationForm(x) /\ x.at = "viewed" /\ x.head = head /\ x.checks = {}
  BY <1>6, Zenon DEF NoEvaluation, EvaluationForm
<1>3. StageInv(x)
  BY <1>2 DEF Evaluating, StageInv, Working
<1>4. CompanionInv'
  BY <1>1, <1>2, CompanionsStay DEF Evaluating
<1>5. WorkspaceInv'
  BY <1>1, <1>2 DEF Evaluating, WorkspaceInv, Working
<1> QED
  BY <1>1, <1>3, <1>4, <1>5 DEF Evaluating

LEMMA CloneKeeps == ASSUME Evaluating, Clone PROVE Evaluating'
<1>1. /\ evaluation.at = "viewed" /\ workspaces' = workspaces \cup {evaluations}
      /\ UNCHANGED <<head, companions, evaluated, withdrawn, companionLost, evaluations>>
      /\ EvaluationForm(evaluation)
  BY DEF Clone, Evaluating, StageInv
<1>2. \/ /\ \E t \in {evaluation.head, 0} : evaluation' = [evaluation EXCEPT !.at = "cloned", !.tree = t]
         /\ UNCHANGED cloneFailed
      \/ /\ evaluation' = [evaluation EXCEPT !.at = "thrown"]
         /\ cloneFailed' = cloneFailed \cup {evaluations}
  BY Zenon DEF Clone
<1>3. ASSUME NEW t, NEW x, x = [evaluation EXCEPT !.at = "cloned", !.tree = t]
      PROVE  EvaluationForm(x) /\ x.at = "cloned" /\ x.head = evaluation.head /\ x.checks = evaluation.checks
  BY <1>1, <1>3, Zenon DEF EvaluationForm
<1>4. ASSUME NEW x, x = [evaluation EXCEPT !.at = "thrown"]
      PROVE  EvaluationForm(x) /\ x.at = "thrown"
  BY <1>1, <1>4, Zenon DEF EvaluationForm
<1>5. /\ EvaluationForm(evaluation')
      /\ \/ /\ evaluation'.at = "cloned" /\ evaluation'.head = evaluation.head
            /\ evaluation'.checks = evaluation.checks /\ UNCHANGED cloneFailed
         \/ evaluation'.at = "thrown" /\ cloneFailed' = cloneFailed \cup {evaluations}
  BY <1>2, <1>3, <1>4
<1>6. StageInv(evaluation)'
  BY <1>1, <1>5 DEF Evaluating, StageInv, Working
<1>7. CompanionInv'
  BY <1>1, <1>5, CompanionsStay DEF Evaluating
<1>8. WorkspaceInv'
  BY <1>1, <1>5 DEF Evaluating, WorkspaceInv, Working
<1> QED
  BY <1>1, <1>6, <1>7, <1>8 DEF Evaluating

LEMMA AskKeeps == ASSUME Evaluating, AskSandbox PROVE Evaluating'
<1>1. PICK available \in BOOLEAN :
        evaluation' = [evaluation EXCEPT !.at = IF available THEN "checking" ELSE "advising",
                                         !.sandbox = available]
  BY DEF AskSandbox
<1> DEFINE s == IF available THEN "checking" ELSE "advising"
<1>2. (s = "checking" /\ available = TRUE) \/ (s = "advising" /\ available = FALSE)
  OBVIOUS
<1>3. evaluation' = [evaluation EXCEPT !.at = s, !.sandbox = available]
  BY <1>1
<1> HIDE DEF s
<1>4. /\ evaluation.at = "cloned" /\ EvaluationForm(evaluation)
      /\ UNCHANGED <<head, companions, evaluated, workspaces, cloneFailed, withdrawn, companionLost, evaluations>>
  BY DEF AskSandbox, Evaluating, StageInv
<1>5. /\ EvaluationForm(evaluation') /\ evaluation'.at = s /\ evaluation'.sandbox = available
      /\ evaluation'.head = evaluation.head /\ evaluation'.checks = evaluation.checks
  BY <1>3, <1>4, Zenon DEF EvaluationForm
<1>6. StageInv(evaluation)'
  BY <1>2, <1>4, <1>5 DEF Evaluating, StageInv, Working
<1>7. CompanionInv'
  BY <1>2, <1>4, <1>5, CompanionsStay DEF Evaluating
<1>8. WorkspaceInv'
  BY <1>2, <1>4, <1>5 DEF Evaluating, WorkspaceInv, Working
<1> QED
  BY <1>4, <1>6, <1>7, <1>8 DEF Evaluating

LEMMA RunKeeps == ASSUME Evaluating, RunCheck PROVE Evaluating'
<1>1. PICK passed \in BOOLEAN :
        evaluation' = [evaluation EXCEPT
          !.checks = @ \cup {[name |-> NextCheck(evaluation), passed |-> passed]}]
  BY DEF RunCheck
<1> DEFINE n == NextCheck(evaluation)
           c == [name |-> n, passed |-> passed]
           checks == evaluation.checks \cup {c}
<1>2. evaluation' = [evaluation EXCEPT !.checks = checks]
  BY <1>1
<1> HIDE DEF n
<1>3. CheckForm(c)
  BY DEF CheckForm
<1> HIDE DEF c
<1>4. /\ evaluation.at = "checking" /\ EvaluationForm(evaluation)
      /\ UNCHANGED <<head, companions, evaluated, workspaces, cloneFailed, withdrawn, companionLost, evaluations>>
  BY DEF RunCheck, Evaluating, StageInv
<1>5. \A d \in checks : CheckForm(d)
  BY <1>3, <1>4 DEF Evaluating, StageInv, Working
<1> HIDE DEF checks
<1>6. /\ EvaluationForm(evaluation') /\ evaluation'.at = "checking" /\ evaluation'.sandbox = evaluation.sandbox
      /\ evaluation'.head = evaluation.head /\ evaluation'.checks = checks
  BY <1>2, <1>4, Zenon DEF EvaluationForm
<1>7. StageInv(evaluation)'
  BY <1>4, <1>5, <1>6 DEF Evaluating, StageInv, Working
<1>8. CompanionInv'
  BY <1>4, <1>6, CompanionsStay DEF Evaluating
<1>9. WorkspaceInv'
  BY <1>4, <1>6 DEF Evaluating, WorkspaceInv, Working
<1> QED
  BY <1>4, <1>7, <1>8, <1>9 DEF Evaluating

(* The evaluation ends, and its workspace is removed.                      *)
LEMMA EndKeeps ==
  ASSUME Evaluating, evaluation.at \in Working, workspaces' = workspaces \ {evaluations},
         StageInv(evaluation)', evaluation'.at \in {"thrown", "evaluated"},
         UNCHANGED <<head, companions, evaluated, cloneFailed, withdrawn, companionLost, evaluations>>
  PROVE  Evaluating'
<1>1. CompanionInv'
  BY CompanionsStay DEF Evaluating, Working
<1>2. WorkspaceInv'
  BY DEF Evaluating, WorkspaceInv, Working
<1> QED
  BY <1>1, <1>2 DEF Evaluating

LEMMA ThrowKeeps ==
  ASSUME Evaluating, evaluation.at \in Working, workspaces' = workspaces \ {evaluations},
         evaluation' = [evaluation EXCEPT !.at = "thrown"],
         UNCHANGED <<head, companions, evaluated, cloneFailed, withdrawn, companionLost, evaluations>>
  PROVE  Evaluating'
<1>1. EvaluationForm(evaluation)
  BY DEF Evaluating, StageInv
<1>2. EvaluationForm(evaluation') /\ evaluation'.at = "thrown"
  BY <1>1, Zenon DEF EvaluationForm
<1>3. StageInv(evaluation)'
  BY <1>2 DEF StageInv, Working
<1> QED
  BY <1>2, <1>3, EndKeeps

LEMMA GoneKeeps == ASSUME Evaluating, SandboxGone PROVE Evaluating'
BY ThrowKeeps DEF SandboxGone, Working

(* The advisory scan gates nothing, and undoes no check.                   *)
LEMMA ExhaustedStays ==
  ASSUME NEW e, Exhausted(e),
         NEW x, x.sandbox = e.sandbox, x.tree = e.tree, e.checks \subseteq x.checks,
         \A c \in x.checks : c \in e.checks \/ c.name = "dep-advisory"
  PROVE  Exhausted(x)
<1>1. CASE e.sandbox = FALSE /\ Gating(e.checks) = {}
  BY <1>1 DEF Exhausted, Gating, GatingChecks
<1>2. CASE e.sandbox = TRUE /\ Remaining(e) = {}
  <2>1. CASE "install" \in FailedChecks(e.checks)
    <3>1. "install" \in FailedChecks(x.checks)
      BY <2>1 DEF FailedChecks, Gating
    <3> QED
      BY <1>2, <3>1 DEF Exhausted, Remaining
  <2>2. CASE "install" \notin FailedChecks(e.checks)
    <3>1. \A n \in planChecks(e.tree) : \E c \in e.checks : c.name = n
      BY <1>2, <2>2 DEF Remaining
    <3>2. planChecks(x.tree) \ {c.name : c \in x.checks} = {}
      BY <3>1
    <3>3. Remaining(x) = {}
      BY <3>2 DEF Remaining
    <3> QED
      BY <1>2, <3>3 DEF Exhausted
  <2> QED
    BY <2>1, <2>2
<1> QED
  BY <1>1, <1>2 DEF Exhausted

LEMMA AdviseKeeps == ASSUME Evaluating, Advise PROVE Evaluating'
<1>1. /\ evaluation.at \in {"advising", "checking"}
      /\ evaluation.at = "checking" => Remaining(evaluation) = {}
      /\ UNCHANGED <<head, companions, evaluated, cloneFailed, withdrawn, companionLost, evaluations>>
      /\ EvaluationForm(evaluation)
  BY DEF Advise, Evaluating, StageInv
<1>2. CASE /\ evaluation' = [evaluation EXCEPT !.at = "thrown"]
           /\ workspaces' = workspaces \ {evaluations}
  BY <1>1, <1>2, ThrowKeeps DEF Working
<1>3. ASSUME NEW passed \in BOOLEAN, UNCHANGED workspaces,
             evaluation' = [evaluation EXCEPT !.at = "reviewing",
               !.checks = @ \cup (IF Project[evaluation.tree].manifest = "none" THEN {}
                                  ELSE {[name |-> "dep-advisory", passed |-> passed]})]
      PROVE  Evaluating'
  <2> DEFINE c == [name |-> "dep-advisory", passed |-> passed]
             checks == evaluation.checks \cup (IF Project[evaluation.tree].manifest = "none" THEN {} ELSE {c})
  <2>1. evaluation' = [evaluation EXCEPT !.at = "reviewing", !.checks = checks]
    BY <1>3
  <2>2. CheckForm(c) /\ c.name = "dep-advisory"
    BY DEF CheckForm
  <2> HIDE DEF c
  <2>3. evaluation.checks \subseteq checks /\ \A d \in checks : d \in evaluation.checks \/ d = c
    OBVIOUS
  <2> HIDE DEF checks
  <2>4. /\ EvaluationForm(evaluation') /\ evaluation'.at = "reviewing" /\ evaluation'.sandbox = evaluation.sandbox
        /\ evaluation'.head = evaluation.head /\ evaluation'.tree = evaluation.tree
        /\ evaluation'.checks = checks
    BY <1>1, <2>1, Zenon DEF EvaluationForm
  <2>5. Exhausted(evaluation)
    BY <1>1 DEF Evaluating, StageInv, Exhausted, Gating
  <2>6. Exhausted(evaluation')
    BY <2>2, <2>3, <2>4, <2>5, ExhaustedStays
  <2>7. evaluation'.head # 0 /\ \A d \in evaluation'.checks : CheckForm(d)
    BY <1>1, <2>2, <2>3, <2>4 DEF Evaluating, StageInv, Working
  <2>8. StageInv(evaluation)'
    BY <2>4, <2>6, <2>7 DEF StageInv, Working
  <2>9. CompanionInv'
    BY <1>1, <2>4, CompanionsStay DEF Evaluating
  <2>10. WorkspaceInv'
    BY <1>1, <1>3, <2>4 DEF Evaluating, WorkspaceInv, Working
  <2> QED
    BY <1>1, <2>8, <2>9, <2>10 DEF Evaluating
<1> QED
  BY <1>2, <1>3 DEF Advise

LEMMA ConcludeKeeps == ASSUME Evaluating, Conclude PROVE Evaluating'
<1>1. PICK review \in Reviews :
        evaluation' = [evaluation EXCEPT !.at = "evaluated",
          !.verdict = combineVerdict(evaluation.sandbox, evaluation.checks, review)]
  BY DEF Conclude
<1> DEFINE v == combineVerdict(evaluation.sandbox, evaluation.checks, review)
<1>2. evaluation' = [evaluation EXCEPT !.at = "evaluated", !.verdict = v]
  BY <1>1
<1> HIDE DEF v
<1>3. /\ evaluation.at = "reviewing" /\ EvaluationForm(evaluation)
      /\ workspaces' = workspaces \ {evaluations}
      /\ UNCHANGED <<head, companions, evaluated, cloneFailed, withdrawn, companionLost, evaluations>>
  BY DEF Conclude, Evaluating, StageInv
<1>4. /\ EvaluationForm(evaluation') /\ evaluation'.at = "evaluated" /\ evaluation'.sandbox = evaluation.sandbox
      /\ evaluation'.head = evaluation.head /\ evaluation'.tree = evaluation.tree
      /\ evaluation'.checks = evaluation.checks /\ evaluation'.verdict = v
  BY <1>2, <1>3, Zenon DEF EvaluationForm
<1>5. evaluation.head # 0 /\ Exhausted(evaluation) /\ \A c \in evaluation.checks : CheckForm(c)
  BY <1>3 DEF Evaluating, StageInv, Working
<1>6. SoundVerdict(evaluation')
  BY <1>4, <1>5, VerdictFollows DEF v
<1>7. StageInv(evaluation)'
  BY <1>4, <1>6 DEF StageInv, Working
<1> QED
  BY <1>3, <1>4, <1>7, EndKeeps DEF Working

(* A sound verdict is of these fields alone.                               *)
LEMMA SameVerdict ==
  ASSUME NEW e, SoundVerdict(e),
         NEW x, x.head = e.head, x.tree = e.tree, x.sandbox = e.sandbox, x.checks = e.checks,
         x.verdict = e.verdict
  PROVE  SoundVerdict(x)
BY DEF SoundVerdict

LEMMA DeliverKeeps == ASSUME Evaluating, Deliver PROVE Evaluating'
<1>1. /\ evaluation.at \in {"evaluated", "unanchored"} /\ EvaluationForm(evaluation)
      /\ UNCHANGED <<head, evaluated, workspaces, cloneFailed, withdrawn, companionLost>>
      /\ SoundVerdict(evaluation)
  BY DEF Deliver, Evaluating, StageInv
<1>2. CASE /\ evaluated # {} /\ evaluation' = [evaluation EXCEPT !.at = "delivered"]
           /\ UNCHANGED companions
  <2>1. EvaluationForm(evaluation') /\ evaluation'.at = "delivered"
    BY <1>1, <1>2, Zenon DEF EvaluationForm
  <2>2. StageInv(evaluation)'
    BY <2>1 DEF StageInv, Working
  <2>3. CompanionInv'
    BY <1>1, <1>2, <2>1, CompanionsStay DEF Evaluating
  <2>4. WorkspaceInv'
    BY <1>1, <2>1 DEF Evaluating, WorkspaceInv, Working
  <2> QED
    BY <1>1, <2>2, <2>3, <2>4 DEF Evaluating
<1>3. ASSUME evaluated = {}, NEW posted \in BOOLEAN,
             evaluation' = [evaluation EXCEPT !.at = "anchoring",
                                              !.review = IF posted THEN NextReview ELSE 0],
             companions' = companions \cup (IF posted THEN {NextReview} ELSE {})
      PROVE  Evaluating'
  <2> DEFINE r == IF posted THEN NextReview ELSE 0
             new == IF posted THEN {NextReview} ELSE {}
  <2>1. (r = 0 /\ new = {}) \/ (r = NextReview /\ new = {NextReview})
    OBVIOUS
  <2>2. evaluation' = [evaluation EXCEPT !.at = "anchoring", !.review = r] /\ companions' = companions \cup new
    BY <1>3
  <2> HIDE DEF r, new
  <2>3. /\ EvaluationForm(evaluation') /\ evaluation'.at = "anchoring" /\ evaluation'.review = r
        /\ evaluation'.head = evaluation.head /\ evaluation'.tree = evaluation.tree
        /\ evaluation'.sandbox = evaluation.sandbox /\ evaluation'.checks = evaluation.checks
        /\ evaluation'.verdict = evaluation.verdict
    BY <1>1, <2>2, Zenon DEF EvaluationForm
  <2>4. SoundVerdict(evaluation')
    BY <1>1, <2>3, SameVerdict
  <2>5. StageInv(evaluation)'
    BY <2>3, <2>4 DEF StageInv, Working
  <2>6. AllCompanions' = AllCompanions \cup new
    BY <1>1, <2>2 DEF AllCompanions
  <2>7. ASSUME ~companionLost
        PROVE  AllCompanions = {} /\ NextReview = 1
    <3>1. AllCompanions = {}
      BY <1>1, <1>3, <2>7 DEF Evaluating, CompanionInv
    <3> QED
      BY <3>1, FS_EmptySet DEF NextReview, AllCompanions
  <2>8. CompanionInv'
    BY <1>1, <1>3, <2>1, <2>3, <2>6, <2>7 DEF CompanionInv
  <2>9. WorkspaceInv'
    BY <1>1, <2>3 DEF Evaluating, WorkspaceInv, Working
  <2> QED
    BY <1>1, <2>5, <2>8, <2>9 DEF Evaluating
<1> QED
  BY <1>2, <1>3 DEF Deliver

LEMMA AnchorEvaluationKeeps == ASSUME Evaluating, AnchorEvaluation PROVE Evaluating'
<1>1. /\ evaluation.at = "anchoring" /\ EvaluationForm(evaluation) /\ SoundVerdict(evaluation)
      /\ evaluated' = {Anchored(evaluation)}
      /\ evaluation' = [evaluation EXCEPT !.at = "delivered"]
      /\ UNCHANGED <<head, companions, workspaces, cloneFailed, withdrawn, companionLost, evaluations>>
  BY DEF AnchorEvaluation, Evaluating, StageInv
<1>2. EvaluationForm(evaluation') /\ evaluation'.at = "delivered"
  BY <1>1, Zenon DEF EvaluationForm
<1>3. StageInv(evaluation)'
  BY <1>2 DEF StageInv, Working
<1> DEFINE att == Anchored(evaluation)
<1>4. /\ att.head = evaluation.head /\ att.tree = evaluation.tree /\ att.sandbox = evaluation.sandbox
      /\ att.checks = evaluation.checks /\ att.verdict = evaluation.verdict
      /\ att.review = evaluation.review
  BY DEF Anchored
<1> HIDE DEF att
<1>5. SoundVerdict(att) /\ att.review \in {0} \cup AllCompanions
  BY <1>1, <1>4, SameVerdict DEF Evaluating, CompanionInv
<1>6. evaluated' = {att} /\ AllCompanions' = AllCompanions
  BY <1>1 DEF att, AllCompanions
<1>7. CompanionInv'
  BY <1>1, <1>2, <1>5, <1>6 DEF Evaluating, CompanionInv
<1>8. WorkspaceInv'
  BY <1>1, <1>2 DEF Evaluating, WorkspaceInv, Working
<1> QED
  BY <1>1, <1>3, <1>7, <1>8 DEF Evaluating

LEMMA AnchorFailsKeeps == ASSUME Evaluating, AnchorEvaluationThrows PROVE Evaluating'
<1>1. /\ evaluation.at = "anchoring" /\ EvaluationForm(evaluation) /\ SoundVerdict(evaluation)
      /\ evaluation' = [evaluation EXCEPT !.at = "unanchored"]
      /\ companionLost' = (companionLost \/ evaluation.review # 0)
      /\ UNCHANGED <<head, companions, evaluated, workspaces, cloneFailed, withdrawn, evaluations>>
  BY Zenon DEF AnchorEvaluationThrows, Evaluating, StageInv
<1>2. /\ EvaluationForm(evaluation') /\ evaluation'.at = "unanchored"
      /\ evaluation'.head = evaluation.head /\ evaluation'.tree = evaluation.tree
      /\ evaluation'.sandbox = evaluation.sandbox /\ evaluation'.checks = evaluation.checks
      /\ evaluation'.verdict = evaluation.verdict
  BY <1>1, Zenon DEF EvaluationForm
<1>3. SoundVerdict(evaluation')
  BY <1>1, <1>2, SameVerdict
<1>4. StageInv(evaluation)'
  BY <1>2, <1>3 DEF StageInv, Working
<1>5. ~companionLost' => ~companionLost /\ evaluation.review = 0
  BY <1>1
<1>6. AllCompanions' = AllCompanions
  BY <1>1 DEF AllCompanions
<1>7. ASSUME ~companionLost' PROVE AllCompanions = {}
  BY <1>1, <1>5, <1>7 DEF Evaluating, CompanionInv
<1>8. CompanionInv'
  BY <1>1, <1>2, <1>6, <1>7 DEF Evaluating, CompanionInv
<1>9. WorkspaceInv'
  BY <1>1, <1>2 DEF Evaluating, WorkspaceInv, Working
<1> QED
  BY <1>1, <1>4, <1>8, <1>9 DEF Evaluating

LEMMA OutsideKeeps == ASSUME Evaluating, PushCommit \/ WithdrawReview PROVE Evaluating'
<1>1. /\ UNCHANGED <<evaluation, evaluated, workspaces, cloneFailed, companionLost, evaluations>>
      /\ head' \in Nat \ {0} /\ AllCompanions' = AllCompanions
  BY DEF PushCommit, WithdrawReview, Evaluating, AllCompanions
<1>2. CompanionInv'
  BY <1>1 DEF Evaluating, CompanionInv
<1>3. WorkspaceInv' /\ StageInv(evaluation)'
  BY <1>1 DEF Evaluating, WorkspaceInv
<1> QED
  BY <1>1, <1>2, <1>3 DEF Evaluating

LEMMA EvaluatorInvHolds == MCSpec => []EvaluatorInv
<1>1. (working = "evaluator" /\ EvaluatorInit) \/ (working # "evaluator" /\ RestEvaluator) => EvaluatorInv
  <2>1. EvaluatorInit => head \in Nat \ {0}
    BY DEF EvaluatorInit
  <2>2. StageInv(NoEvaluation)
    BY DEF StageInv, EvaluationForm, NoEvaluation, Working
  <2> QED
    BY <2>1, <2>2, EvaluatorStarts DEF EvaluatorInv
<1>2. EvaluatorInv /\ [working = "evaluator" /\ EvaluatorNext /\ UNCHANGED working]_<<evaluatorVars, working>>
        => EvaluatorInv'
  <2>1. ASSUME Evaluating, EvaluatorNext PROVE Evaluating'
    BY <2>1, FetchKeeps, CloneKeeps, AskKeeps, RunKeeps, GoneKeeps, AdviseKeeps, ConcludeKeeps, DeliverKeeps,
       AnchorEvaluationKeeps, AnchorFailsKeeps, OutsideKeeps DEF EvaluatorNext
  <2>2. CASE UNCHANGED <<evaluatorVars, working>>
    BY <2>2 DEF EvaluatorInv, evaluatorVars, CompanionInv, AllCompanions, WorkspaceInv
  <2>3. ASSUME EvaluatorInv, working = "evaluator", EvaluatorNext, UNCHANGED working PROVE EvaluatorInv'
    BY <2>1, <2>3 DEF EvaluatorInv, Evaluating
  <2> QED
    BY <2>2, <2>3
<1> QED
  BY <1>1, <1>2, EvaluatorPart, PTL

LEMMA EvaluatorInvMeans == ASSUME EvaluatorInv PROVE EvaluationIsSound
<1>1. EvaluationVerifies
  BY DEF EvaluatorInv, CompanionInv, AllCompanions, SoundVerdict, EvaluationVerifies, verifyEvaluation,
         verdictConsistentWithChecks
<1>2. ApprovalIsEarned
  BY DEF EvaluatorInv, CompanionInv, SoundVerdict, ApprovalIsEarned
<1>3. OneCompanion
  <2> SUFFICES ASSUME ~companionLost PROVE Cardinality(AllCompanions) <= 1
    BY DEF OneCompanion, AllCompanions
  <2>1. \A c, d \in AllCompanions : c = d
    BY DEF EvaluatorInv, CompanionInv
  <2>2. CASE AllCompanions = {}
    BY <2>2, FS_EmptySet
  <2>3. CASE AllCompanions # {}
    <3>1. PICK c : AllCompanions = {c}
      BY <2>1, <2>3
    <3> QED
      BY <3>1, FS_Singleton
  <2> QED
    BY <2>2, <2>3
<1>4. WorkspaceIsRemoved
  BY DEF EvaluatorInv, WorkspaceInv, Working, WorkspaceIsRemoved
<1> QED
  BY <1>1, <1>2, <1>3, <1>4 DEF EvaluationIsSound

(* ReviewBot and the evaluator, whatever the pull requests, the projects,  *)
(* the number of calls and of faults: a review that was paid for was       *)
(* posted by the bound login, verifies as long as the pull request is as   *)
(* it was left, and is posted once; an anchored evaluation verifies, its   *)
(* approval rests on planned checks that ran and passed, its companion is  *)
(* one, and its workspace is removed.                                      *)
THEOREM ReviewsHold == MCSpec => []ReviewsAreSound
<1>1. ReviewsInv /\ EvaluatorInv => ReviewsAreSound
  BY ReviewsInvMeans, EvaluatorInvMeans DEF ReviewsAreSound
<1> QED
  BY <1>1, ReviewsInvHolds, EvaluatorInvHolds, PTL

-----------------------------------------------------------------------------
(* Sponsored posts.                                                        *)

LEMMA PostPart == MCSpec => (PostInit \/ RestPost) /\ [][PostNext]_postVars
<1>1. MCInit => PostInit \/ RestPost
  BY Zenon DEF MCInit, DesksInit, RestDesks
<1>2. [MCNext]_mcVars => [PostNext]_postVars
  BY Zenon DEF MCNext, DesksNext, mcVars, deskVars
<1> QED
  BY <1>1, <1>2, PTL DEF MCSpec

Order == [job : PostJobs, text : Texts \cup BadTexts]
PostForm ==
  /\ store = [j \in PostJobs |-> store[j]] /\ account \in Seq(Order) /\ waiting \in Seq(Order)
  /\ posting = [at |-> posting.at, job |-> posting.job, text |-> posting.text]
  /\ posting.at # "idle" => [job |-> posting.job, text |-> posting.text] \in Order

(* Until its post is out, a job in hand is reserved for its text and has   *)
(* none on the account; when it is to be recorded, its post is the last.   *)
PostedFor(j) == {i \in 1 .. Len(account) : account[i].job = j}
PostInv ==
  /\ PostForm
  /\ posting.at \in {"idle", "begin", "moderate", "publish", "record"}
  /\ posting.at \in {"moderate", "publish"} =>
       /\ PostedFor(posting.job) = {}
       /\ \E s \in store[posting.job] : s.text = posting.text
  /\ posting.at = "record" =>
       Len(account) > 0 /\ account[Len(account)] = [job |-> posting.job, text |-> posting.text]
  /\ \A i, k \in 1 .. Len(account) : account[i].job = account[k].job => i = k
  /\ \A i \in 1 .. Len(account) : \E s \in store[account[i].job] : s.text = account[i].text
  /\ \A j \in PostJobs : \A s \in store[j] : s.status = "complete" =>
       s.post \in 1 .. Len(account) /\ account[s.post] = [job |-> j, text |-> s.text]
  /\ \A d \in served : d.post \in 1 .. Len(account) /\ account[d.post] = [job |-> d.job, text |-> d.text]

LEMMA PostStarts == PostInit \/ RestPost => PostInv
<1> SUFFICES ASSUME PostInit \/ RestPost PROVE PostInv
  OBVIOUS
<1>1. /\ store = [j \in PostJobs |-> {}] /\ account = <<>> /\ waiting = <<>> /\ served = {}
      /\ posting = IdlePost
  BY DEF PostInit, RestPost
<1>2. account \in Seq(Order) /\ waiting \in Seq(Order) /\ 1 .. Len(account) = {}
  BY <1>1
<1>3. posting.at = "idle" /\ posting = [at |-> posting.at, job |-> posting.job, text |-> posting.text]
  BY <1>1 DEF IdlePost
<1>4. PostForm
  BY <1>1, <1>2, <1>3 DEF PostForm
<1> QED
  BY <1>1, <1>2, <1>3, <1>4 DEF PostInv

LEMMA AccountOrders ==
  ASSUME PostInv, NEW j, PostedFor(j) = {}, NEW i \in 1 .. Len(account)
  PROVE  account[i].job \in PostJobs /\ account[i].job # j
<1>1. account[i] \in Order
  BY DEF PostInv, PostForm
<1> QED
  BY <1>1 DEF Order, PostedFor

(* Nothing was posted or recorded; what is at hand is not yet begun.       *)
LEMMA PostWaits ==
  ASSUME PostInv, UNCHANGED <<store, account, served>>, waiting' \in Seq(Order),
         \/ posting' = IdlePost
         \/ \E o \in Order : posting' = [at |-> "begin", job |-> o.job, text |-> o.text]
  PROVE  PostInv'
<1>1. /\ posting' = [at |-> posting'.at, job |-> posting'.job, text |-> posting'.text]
      /\ posting'.at \in {"idle", "begin"}
      /\ posting'.at # "idle" => [job |-> posting'.job, text |-> posting'.text] \in Order
  BY DEF IdlePost, Order
<1>2. PostForm'
  BY <1>1 DEF PostInv, PostForm
<1> QED
  BY <1>1, <1>2 DEF PostInv

LEMMA CallKeeps == ASSUME PostInv, CallWork PROVE PostInv'
<1>1. PICK j \in PostJobs, t \in Texts \cup BadTexts : waiting' = Append(waiting, [job |-> j, text |-> t])
  BY DEF CallWork
<1>2. waiting' \in Seq(Order)
  BY <1>1 DEF PostInv, PostForm, Order
<1>3. UNCHANGED <<store, account, posting, served>>
  BY DEF CallWork
<1>4. PostForm'
  BY <1>2, <1>3 DEF PostInv, PostForm
<1> QED
  BY <1>3, <1>4 DEF PostInv, PostedFor

LEMMA StartWorkKeeps == ASSUME PostInv, StartWork PROVE PostInv'
<1>1. waiting \in Seq(Order) /\ waiting # <<>> /\ UNCHANGED <<store, account, served>>
  BY DEF PostInv, PostForm, StartWork
<1>2. waiting' \in Seq(Order) /\ waiting[1] \in Order
  BY <1>1 DEF StartWork
<1>3. \/ posting' = IdlePost
      \/ posting' = [at |-> "begin", job |-> waiting[1].job, text |-> waiting[1].text]
  BY DEF StartWork
<1> QED
  BY <1>1, <1>2, <1>3, PostWaits

(* The reservation of a job that has no post is given up or torn.          *)
LEMMA UnpostedKeeps ==
  ASSUME PostInv, NEW j \in PostJobs, PostedFor(j) = {}, store' = [k \in PostJobs |-> store'[k]],
         \A k \in PostJobs : k # j => store'[k] = store[k],
         \A s \in store'[j] : s \in store[j] \/ s.status # "complete",
         posting' = IdlePost, account' = account, served' = served, waiting' \in Seq(Order)
  PROVE  PostInv'
<1>1. PostForm'
  BY DEF PostInv, PostForm, IdlePost
<1>2. posting'.at = "idle"
  BY DEF IdlePost
<1>3. ASSUME NEW i \in 1 .. Len(account)
      PROVE  \E s \in store'[account[i].job] : s.text = account[i].text
  <2>1. account[i].job \in PostJobs /\ account[i].job # j
    BY AccountOrders
  <2> QED
    BY <2>1 DEF PostInv
<1>4. \A k \in PostJobs : \A s \in store'[k] : s.status = "complete" =>
        s.post \in 1 .. Len(account) /\ account[s.post] = [job |-> k, text |-> s.text]
  BY DEF PostInv
<1> QED
  BY <1>1, <1>2, <1>3, <1>4 DEF PostInv

LEMMA ReleaseKeeps ==
  ASSUME PostInv, posting.at \in {"moderate", "publish"}, releaseRejected(posting.job, posting.text),
         posting' = IdlePost, UNCHANGED <<account, served, waiting>>
  PROVE  PostInv'
<1> DEFINE j == posting.job
<1>1. j \in PostJobs /\ PostedFor(j) = {} /\ waiting \in Seq(Order)
  BY DEF PostInv, PostForm, Order
<1>2. /\ store' = [k \in PostJobs |-> store'[k]] /\ store'[j] \subseteq store[j]
      /\ \A k \in PostJobs : k # j => store'[k] = store[k]
  BY <1>1 DEF releaseRejected, PostInv, PostForm
<1> QED
  BY <1>1, <1>2, UnpostedKeeps

(* A job without a file has no post; a new reservation is for its text.    *)
LEMMA NoFileNoPost ==
  ASSUME PostInv, NEW j \in PostJobs, store[j] = {} PROVE PostedFor(j) = {}
BY DEF PostInv, PostedFor

LEMMA BeginNewKeeps ==
  ASSUME PostInv, posting.at = "begin", BeginNew(posting.job, posting.text),
         posting' = [posting EXCEPT !.at = "moderate"], UNCHANGED <<account, served, waiting>>
  PROVE  PostInv'
<1> DEFINE j == posting.job
           new == Reserved("publishing", posting.text, 0)
<1>1. j \in PostJobs /\ store[j] = {} /\ store' = [store EXCEPT ![j] = new]
  BY DEF PostInv, PostForm, Order, BeginNew
<1>2. PostedFor(j) = {}
  BY <1>1, NoFileNoPost
<1>3. /\ \E s \in new : s.text = posting.text
      /\ \A s \in new : s.status # "complete"
  BY DEF Reserved
<1> HIDE DEF new
<1>4. posting' = [at |-> "moderate", job |-> j, text |-> posting.text]
  BY DEF PostInv, PostForm
<1>5. /\ store' = [k \in PostJobs |-> store'[k]] /\ store'[j] = new
      /\ \A k \in PostJobs : k # j => store'[k] = store[k]
  BY <1>1 DEF PostInv, PostForm
<1>6. PostForm'
  BY <1>4, <1>5 DEF PostInv, PostForm
<1>7. PostedFor(j)' = {}
  BY <1>2 DEF PostedFor
<1>8. \A i \in 1 .. Len(account) : account[i].job \in PostJobs /\ account[i].job # j
  BY <1>2, AccountOrders
<1>9. \A i \in 1 .. Len(account) : \E s \in store'[account[i].job] : s.text = account[i].text
  BY <1>5, <1>8 DEF PostInv
<1>10. \A k \in PostJobs : \A s \in store'[k] : s.status = "complete" =>
         s.post \in 1 .. Len(account) /\ account[s.post] = [job |-> k, text |-> s.text]
  BY <1>3, <1>5 DEF PostInv
<1>11. posting'.at = "moderate" /\ posting'.job = j /\ posting'.text = posting.text
  BY <1>4
<1> QED
  BY <1>3, <1>5, <1>6, <1>7, <1>9, <1>10, <1>11 DEF PostInv

LEMMA BeginKeeps == ASSUME PostInv, Begin PROVE PostInv'
<1>1. /\ posting.at = "begin" /\ UNCHANGED <<account, waiting>> /\ waiting \in Seq(Order)
      /\ posting.job \in PostJobs
  BY DEF Begin, PostInv, PostForm, Order
<1>2. CASE /\ BeginNew(posting.job, posting.text) /\ posting' = [posting EXCEPT !.at = "moderate"]
           /\ UNCHANGED served
  BY <1>1, <1>2, BeginNewKeeps
<1>3. ASSUME NEW s \in store[posting.job], Replays(s, posting.text),
             served' = served \cup {[job |-> posting.job, text |-> posting.text, post |-> s.post]},
             posting' = IdlePost, UNCHANGED store
      PROVE  PostInv'
  <2>1. PostForm' /\ posting'.at = "idle"
    BY <1>1, <1>3 DEF PostInv, PostForm, IdlePost
  <2>2. s.post \in 1 .. Len(account) /\ account[s.post] = [job |-> posting.job, text |-> posting.text]
    BY <1>1, <1>3 DEF PostInv, Replays
  <2> DEFINE e == [job |-> posting.job, text |-> posting.text, post |-> s.post]
  <2>4. e.job = posting.job /\ e.text = posting.text /\ e.post = s.post /\ served' = served \cup {e}
    BY <1>3
  <2> HIDE DEF e
  <2>3. \A d \in served' : d.post \in 1 .. Len(account) /\ account[d.post] = [job |-> d.job, text |-> d.text]
    BY <2>2, <2>4 DEF PostInv
  <2> QED
    BY <1>1, <1>3, <2>1, <2>3 DEF PostInv
<1>4. CASE posting' = IdlePost /\ UNCHANGED <<store, served>>
  BY <1>1, <1>4, PostWaits
<1> QED
  BY <1>2, <1>3, <1>4 DEF Begin, End

LEMMA ModerateKeeps == ASSUME PostInv, Moderate PROVE PostInv'
<1>1. posting.at = "moderate" /\ UNCHANGED <<account, waiting, served>>
  BY DEF Moderate
<1>2. CASE posting' = [posting EXCEPT !.at = "publish"] /\ UNCHANGED store
  <2>1. posting' = [at |-> "publish", job |-> posting.job, text |-> posting.text]
    BY <1>2 DEF PostInv, PostForm
  <2>2. posting'.at = "publish" /\ posting'.job = posting.job /\ posting'.text = posting.text
    BY <2>1
  <2>3. PostForm'
    BY <1>1, <1>2, <2>1 DEF PostInv, PostForm
  <2> QED
    BY <1>1, <1>2, <2>2, <2>3 DEF PostInv, PostedFor
<1>3. CASE releaseRejected(posting.job, posting.text) /\ posting' = IdlePost
  BY <1>1, <1>3, ReleaseKeeps
<1> QED
  BY <1>2, <1>3 DEF Moderate, End

(* A post that may be out keeps its reservation.                           *)
LEMMA LandedKeeps ==
  ASSUME PostInv, posting.at = "publish", account' = account \o Request(posting.job, posting.text),
         \/ posting' = [posting EXCEPT !.at = "record"]
         \/ posting' = IdlePost,
         UNCHANGED <<store, served, waiting>>
  PROVE  PostInv'
<1> DEFINE o == [job |-> posting.job, text |-> posting.text]
           n == Len(account) + 1
<1>1. o \in Order /\ account \in Seq(Order) /\ PostedFor(o.job) = {} /\ Len(account) \in Nat
  BY DEF PostInv, PostForm
<1>2. account' = Append(account, o)
  BY <1>1 DEF Request
<1>3. o.job = posting.job /\ o.text = posting.text
  OBVIOUS
<1> HIDE DEF o
<1>17. /\ account' \in Seq(Order) /\ Len(account') = n /\ account'[n] = o
       /\ \A i \in 1 .. Len(account) : account'[i] = account[i]
  BY <1>1, <1>2
<1>18. \A i \in 1 .. Len(account) : account[i].job # o.job
  BY <1>1, AccountOrders
<1>19. \A i \in 1 .. n : i \in 1 .. Len(account) \/ i = n
  BY <1>1
<1>4. /\ account' \in Seq(Order) /\ Len(account') = n /\ account'[n] = o
      /\ \A i \in 1 .. Len(account) : account'[i] = account[i] /\ account[i].job # o.job
      /\ \A i \in 1 .. n : i \in 1 .. Len(account) \/ i = n
  BY <1>17, <1>18, <1>19
<1>5. /\ posting' = [at |-> posting'.at, job |-> posting'.job, text |-> posting'.text]
      /\ posting'.at = "idle" \/ (posting'.at = "record" /\ posting'.job = posting.job /\ posting'.text = posting.text)
  BY DEF IdlePost, PostInv, PostForm
<1> HIDE DEF n
<1>6. PostForm'
  BY <1>1, <1>3, <1>4, <1>5 DEF PostInv, PostForm, o
<1>7. posting'.at = "record" => Len(account') > 0 /\ account'[Len(account')] = [job |-> posting'.job, text |-> posting'.text]
  BY <1>1, <1>4, <1>5 DEF n, o
<1>8. \A i, k \in 1 .. n : account'[i].job = account'[k].job => i = k
  BY <1>4 DEF PostInv
<1>9. ASSUME NEW i \in 1 .. n PROVE \E s \in store[account'[i].job] : s.text = account'[i].text
  <2>1. \E s \in store[o.job] : s.text = o.text
    BY <1>3 DEF PostInv
  <2>2. CASE i = n
    BY <1>4, <2>1, <2>2
  <2>3. CASE i \in 1 .. Len(account)
    BY <1>4, <2>3 DEF PostInv
  <2> QED
    BY <1>4, <2>2, <2>3
<1>10. 1 .. Len(account) \subseteq 1 .. n
  BY <1>1 DEF n
<1>20. /\ \A j \in PostJobs : \A s \in store[j] : s.status = "complete" =>
            s.post \in 1 .. Len(account) /\ account[s.post] = [job |-> j, text |-> s.text]
       /\ \A d \in served : d.post \in 1 .. Len(account) /\ account[d.post] = [job |-> d.job, text |-> d.text]
  BY DEF PostInv
<1>11. \A j \in PostJobs : \A s \in store[j] : s.status = "complete" =>
         s.post \in 1 .. n /\ account'[s.post] = [job |-> j, text |-> s.text]
  BY <1>10, <1>17, <1>20
<1>12. \A d \in served : d.post \in 1 .. n /\ account'[d.post] = [job |-> d.job, text |-> d.text]
  BY <1>10, <1>17, <1>20
<1>13. Len(account') = n /\ store' = store /\ served' = served
  BY <1>4
<1>14. /\ posting'.at \in {"idle", "begin", "moderate", "publish", "record"}
       /\ posting'.at \notin {"moderate", "publish"}
  BY <1>5
<1>15. /\ \A i, k \in 1 .. Len(account') : account'[i].job = account'[k].job => i = k
       /\ \A i \in 1 .. Len(account') : \E s \in store'[account'[i].job] : s.text = account'[i].text
  BY <1>8, <1>9, <1>13
<1>16. /\ \A j \in PostJobs : \A s \in store'[j] : s.status = "complete" =>
            s.post \in 1 .. Len(account') /\ account'[s.post] = [job |-> j, text |-> s.text]
       /\ \A d \in served' : d.post \in 1 .. Len(account') /\ account'[d.post] = [job |-> d.job, text |-> d.text]
  BY <1>11, <1>12, <1>13
<1> QED
  BY <1>6, <1>7, <1>14, <1>15, <1>16, Zenon DEF PostInv

LEMMA PublishKeeps == ASSUME PostInv, Publish PROVE PostInv'
<1>1. PICK answer \in {"created", "rejected", "unknown"}, landed \in BOOLEAN :
        /\ answer = "created" => landed
        /\ answer = "rejected" => ~landed
        /\ account' = IF landed THEN account \o Request(posting.job, posting.text) ELSE account
        /\ posting' = IF answer = "created" THEN [posting EXCEPT !.at = "record"] ELSE IdlePost
        /\ IF Releases(answer) THEN releaseRejected(posting.job, posting.text) ELSE UNCHANGED store
  BY DEF Publish
<1>2. posting.at = "publish" /\ UNCHANGED <<waiting, served>> /\ waiting \in Seq(Order)
  BY DEF Publish, PostInv, PostForm
<1>3. CASE landed
  BY <1>1, <1>2, <1>3, LandedKeeps DEF Releases
<1>4. CASE answer = "rejected"
  BY <1>1, <1>2, <1>4, ReleaseKeeps DEF Releases
<1>5. CASE ~landed /\ answer = "unknown"
  BY <1>1, <1>2, <1>5, PostWaits DEF Releases
<1> QED
  BY <1>1, <1>3, <1>4, <1>5

LEMMA RecordKeeps == ASSUME PostInv, Record PROVE PostInv'
<1>1. /\ posting.at = "record" /\ posting' = IdlePost /\ UNCHANGED <<account, waiting>>
      /\ waiting \in Seq(Order)
  BY DEF Record, End, PostInv, PostForm
<1>2. CASE UNCHANGED <<store, served>>
  BY <1>1, <1>2, PostWaits
<1> DEFINE j == posting.job
           n == Len(account)
           rec == Reserved("complete", posting.text, n)
           d == [job |-> j, text |-> posting.text, post |-> n]
<1>3. CASE store' = [store EXCEPT ![j] = rec] /\ served' = served \cup {d}
  <2>1. /\ j \in PostJobs /\ account \in Seq(Order) /\ n \in Nat /\ n \in 1 .. n
        /\ account[n] = [job |-> j, text |-> posting.text]
    BY <1>1 DEF PostInv, PostForm, Order
  <2>2. \A s \in rec : s.status = "complete" /\ s.text = posting.text /\ s.post = n
    BY DEF Reserved
  <2>3. \E s \in rec : s.text = posting.text
    BY DEF Reserved
  <2>4. d.job = j /\ d.text = posting.text /\ d.post = n
    OBVIOUS
  <2> HIDE DEF rec, d
  <2>5. /\ store' = [k \in PostJobs |-> store'[k]] /\ store'[j] = rec
        /\ \A k \in PostJobs : k # j => store'[k] = store[k]
    BY <1>3, <2>1 DEF PostInv, PostForm
  <2>6. PostForm' /\ posting'.at = "idle"
    BY <1>1, <2>5 DEF PostInv, PostForm, IdlePost
  <2>7. ASSUME NEW i \in 1 .. n PROVE \E s \in store'[account[i].job] : s.text = account[i].text
    <3>3. account[i] \in Order
      BY <2>1
    <3>1. account[i].job \in PostJobs
      BY <3>3 DEF Order
    <3>2. CASE account[i].job = j
      <4>1. i = n
        BY <2>1, <3>2 DEF PostInv
      <4> QED
        BY <2>1, <2>3, <2>5, <3>2, <4>1
    <3> QED
      BY <2>5, <3>1, <3>2 DEF PostInv
  <2>8. \A k \in PostJobs : \A s \in store'[k] : s.status = "complete" =>
          s.post \in 1 .. n /\ account[s.post] = [job |-> k, text |-> s.text]
    BY <2>1, <2>2, <2>5 DEF PostInv
  <2>10. \A e \in served : e.post \in 1 .. n /\ account[e.post] = [job |-> e.job, text |-> e.text]
    BY DEF PostInv
  <2>9. \A e \in served' : e.post \in 1 .. n /\ account[e.post] = [job |-> e.job, text |-> e.text]
    BY <1>3, <2>1, <2>4, <2>10
  <2> QED
    BY <1>1, <2>6, <2>7, <2>8, <2>9 DEF PostInv
<1> QED
  BY <1>2, <1>3 DEF Record

LEMMA CrashKeeps == ASSUME PostInv, PostCrash PROVE PostInv'
<1>1. posting' = IdlePost /\ waiting' \in Seq(Order) /\ UNCHANGED <<account, served>>
  BY DEF PostCrash
<1>2. CASE UNCHANGED store
  BY <1>1, <1>2, PostWaits
<1> DEFINE torn == Reserved("torn", 0, 0)
<1>3. CASE /\ posting.at = "begin" /\ store[posting.job] = {}
           /\ store' = [store EXCEPT ![posting.job] = torn]
  <2>1. posting.job \in PostJobs
    BY <1>3 DEF PostInv, PostForm, Order
  <2>2. PostedFor(posting.job) = {}
    BY <1>3, <2>1, NoFileNoPost
  <2>3. \A s \in torn : s.status # "complete"
    BY DEF Reserved
  <2> HIDE DEF torn
  <2>4. /\ store' = [k \in PostJobs |-> store'[k]] /\ store'[posting.job] = torn
        /\ \A k \in PostJobs : k # posting.job => store'[k] = store[k]
    BY <1>3, <2>1 DEF PostInv, PostForm
  <2> QED
    BY <1>1, <2>1, <2>2, <2>3, <2>4, UnpostedKeeps
<1> QED
  BY <1>2, <1>3 DEF PostCrash

LEMMA PostInvHolds == MCSpec => []PostInv
<1>1. PostInv /\ [PostNext]_postVars => PostInv'
  <2> SUFFICES ASSUME PostInv, [PostNext]_postVars PROVE PostInv'
    OBVIOUS
  <2>1. CASE UNCHANGED postVars
    <3>1. PostForm'
      BY <2>1 DEF postVars, PostInv, PostForm
    <3>2. \A j : PostedFor(j)' = PostedFor(j)
      BY <2>1 DEF postVars, PostedFor
    <3> QED
      BY <2>1, <3>1, <3>2 DEF postVars, PostInv
  <2> QED
    BY <2>1, CallKeeps, StartWorkKeeps, BeginKeeps, ModerateKeeps, PublishKeeps, RecordKeeps, CrashKeeps
       DEF PostNext
<1> QED
  BY <1>1, PostPart, PostStarts, PTL

LEMMA PostInvMeans == ASSUME PostInv PROVE PostedOnce /\ DeliveredIsPosted /\ PostIsReserved
<1>1. DOMAIN account = 1 .. Len(account)
  BY DEF PostInv, PostForm
<1> QED
  BY <1>1 DEF PostInv, PostedOnce, DeliveredIsPosted, PostIsReserved

-----------------------------------------------------------------------------
(* The oracle desk.                                                        *)

LEMMA OraclePart == MCSpec => (OracleInit \/ RestOracle) /\ [][OracleNext]_oracleVars
<1>1. MCInit => OracleInit \/ RestOracle
  BY Zenon DEF MCInit, DesksInit, RestDesks
<1>2. [MCNext]_mcVars => [OracleNext]_oracleVars
  BY Zenon DEF MCNext, DesksNext, mcVars, deskVars
<1> QED
  BY <1>1, <1>2, PTL DEF MCSpec

AllBodies == UNION {Bodies[u] : u \in SafeUrls}
Anchors == [url : SafeUrls, hash : SUBSET AllBodies, confirmed : BOOLEAN]
Results == [url : SafeUrls, body : AllBodies, digest : AllBodies, tx : Nat]
RequestForm(o) ==
  /\ o = [at |-> o.at, call |-> o.call, port |-> o.port, got |-> o.got]
  /\ o.call \in OracleCalls /\ o.got \in Seq(Results)

(* What was attested holds the field, its digest is of the body, and its   *)
(* anchor, if it has one, names its URL and no other body.                 *)
ResultOK(r, url) ==
  /\ r.digest = r.body /\ r.url = url
  /\ r.tx # 0 => /\ r.tx \in 1 .. Len(chain) /\ chain[r.tx].url = url
                 /\ chain[r.tx].hash = {} \/ chain[r.tx].hash = {r.body}
ResultsOK(o) == \A i \in 1 .. Len(o.got) : ResultOK(o.got[i], o.call.urls[i])
SaleOK(a) ==
  /\ RequestForm([at |-> "sell", call |-> a.call, port |-> "direct", got |-> a.got])
  /\ Len(a.got) = Len(a.call.urls) /\ Len(a.got) > 0 /\ ResultsOK(a)
  /\ \A i \in 1 .. Len(a.got) : \A v \in extractBySelector(a.got[i].body, a.call.selector), w \in a.value :
       v.text = w.text /\ v.shape = w.shape
OracleInv ==
  /\ chain \in Seq(Anchors)
  /\ oracle.at \in {"idle", "refuse", "fetch", "sell"}
  /\ oracle.at # "idle" => RequestForm(oracle) /\ ResultsOK(oracle)
  /\ oracle.at \in {"fetch", "sell"} => oracle.call.selector \in GoodSelectors
  /\ oracle.at = "fetch" => Len(oracle.got) < Len(oracle.call.urls)
  /\ oracle.at = "sell" => Len(oracle.got) = Len(oracle.call.urls) /\ Len(oracle.got) > 0
  /\ \A a \in Delivered : SaleOK(a)

LEMMA OracleStarts == OracleInit \/ RestOracle => OracleInv
<1> SUFFICES ASSUME OracleInit \/ RestOracle PROVE OracleInv
  OBVIOUS
<1>1. oracle.at = "idle" /\ chain = <<>> /\ answers = {}
  BY DEF OracleInit, RestOracle, IdleDesk
<1> QED
  BY <1>1 DEF OracleInv, Delivered

(* Anchors are added and confirmed, and say what they said.                *)
ChainStays ==
  /\ Len(chain) <= Len(chain')
  /\ \A i \in 1 .. Len(chain) : chain'[i].url = chain[i].url /\ chain'[i].hash = chain[i].hash

LEMMA ResultStays ==
  ASSUME chain \in Seq(Anchors), chain' \in Seq(Anchors), ChainStays, NEW r, NEW url, ResultOK(r, url)
  PROVE  ResultOK(r, url)'
BY DEF ResultOK, ChainStays

LEMMA SaleStays ==
  ASSUME chain \in Seq(Anchors), chain' \in Seq(Anchors), ChainStays, NEW a, SaleOK(a)
  PROVE  SaleOK(a)'
<1>1. ResultsOK(a)'
  BY ResultStays DEF SaleOK, ResultsOK
<1> QED
  BY <1>1 DEF SaleOK

(* An answer that sells nothing.                                           *)
LEMMA NoSaleKeeps ==
  ASSUME OracleInv, chain' \in Seq(Anchors), ChainStays, NEW status, status # 200, Answer(status, {})
  PROVE  OracleInv'
<1> DEFINE a == [no |-> asked, call |-> oracle.call, value |-> {}, got |-> oracle.got, status |-> status]
<1>1. oracle'.at = "idle" /\ answers' = answers \cup {a} /\ a.status # 200
  BY DEF Answer, IdleDesk
<1> HIDE DEF a
<1>2. Delivered' \subseteq Delivered
  BY <1>1 DEF Delivered
<1>3. \A d \in Delivered : SaleOK(d)'
  BY SaleStays DEF OracleInv
<1> QED
  BY <1>1, <1>2, <1>3 DEF OracleInv

LEMMA AskKeepsOracle == ASSUME OracleInv, Ask PROVE OracleInv'
<1>1. PICK c \in OracleCalls, port \in {"direct", "dahr"} :
        oracle' = [at |-> IF MayAsk(c) THEN "fetch" ELSE "refuse", call |-> c, port |-> port, got |-> <<>>]
  BY DEF Ask
<1> DEFINE s == IF MayAsk(c) THEN "fetch" ELSE "refuse"
<1>2. s \in {"fetch", "refuse"} /\ (s = "fetch" => MayAsk(c))
  OBVIOUS
<1>3. oracle' = [at |-> s, call |-> c, port |-> port, got |-> <<>>]
  BY <1>1
<1> HIDE DEF s
<1>4. /\ oracle'.at = s /\ oracle'.call = c /\ oracle'.got = <<>> /\ Len(oracle'.got) = 0
      /\ oracle' = [at |-> oracle'.at, call |-> oracle'.call, port |-> oracle'.port, got |-> oracle'.got]
  BY <1>3
<1>5. RequestForm(oracle') /\ UNCHANGED <<chain, answers>>
  BY <1>4 DEF RequestForm, Ask
<1>6. ResultsOK(oracle)'
  BY <1>4 DEF ResultsOK
<1>7. s = "fetch" => c.selector \in GoodSelectors /\ Len(c.urls) > 0
  <2> SUFFICES ASSUME MayAsk(c) PROVE c.selector \in GoodSelectors /\ Len(c.urls) > 0
    BY <1>2
  <2>1. Len(c.urls) \in Nat /\ (c.route # "consensus" => Len(c.urls) = 1)
    BY OracleAssumption
  <2> QED
    BY <2>1 DEF MayAsk, resolveRequest, Parses
<1>9. chain \in Seq(Anchors) /\ chain' \in Seq(Anchors) /\ ChainStays
  BY <1>5 DEF OracleInv, ChainStays
<1>8. \A a \in Delivered' : SaleOK(a)'
  BY <1>5, <1>9, SaleStays DEF OracleInv, Delivered
<1> QED
  BY <1>2, <1>4, <1>5, <1>6, <1>7, <1>8 DEF OracleInv

(* A result that holds the field is kept, and the next source is due.      *)
LEMMA AttestKeeps ==
  ASSUME OracleInv, chain' \in Seq(Anchors), ChainStays, oracle.at = "fetch",
         NEW r \in Results, NEW url, url = Url, ResultOK(r, url)', attestValue(r),
         extractBySelector(r.body, oracle.call.selector) # {}
  PROVE  OracleInv'
<1> DEFINE n == Len(oracle.got) + 1
           s == IF n < Len(oracle.call.urls) THEN "fetch" ELSE "sell"
<1>0. PICK got, c : got = Append(oracle.got, r) /\ c = oracle.call
  OBVIOUS
<1>1. /\ RequestForm(oracle) /\ ResultsOK(oracle) /\ oracle.got \in Seq(Results)
      /\ oracle.call \in OracleCalls /\ oracle.call.selector \in GoodSelectors
      /\ Len(oracle.got) < Len(oracle.call.urls) /\ Len(oracle.call.urls) \in Nat
  BY OracleAssumption DEF OracleInv, RequestForm
<1>2. oracle' = [oracle EXCEPT !.got = got, !.at = s] /\ UNCHANGED answers
  BY <1>0 DEF attestValue, Answer, IdleDesk
<1>3. /\ got \in Seq(Results) /\ Len(got) = n /\ got[n] = r /\ n > 0 /\ n \in Nat
      /\ \A i \in 1 .. Len(oracle.got) : got[i] = oracle.got[i]
      /\ \A i \in 1 .. n : i \in 1 .. Len(oracle.got) \/ i = n
  BY <1>0, <1>1
<1>4. /\ s \in {"fetch", "sell"}
      /\ s = "fetch" => n < Len(oracle.call.urls)
      /\ s = "sell" => n = Len(oracle.call.urls)
  BY <1>1, <1>3
<1>8. url = c.urls[n]
  BY <1>0 DEF Url
<1> HIDE DEF s
<1>5. oracle = [at |-> oracle.at, call |-> oracle.call, port |-> oracle.port, got |-> oracle.got]
  BY <1>1 DEF RequestForm
<1>6. /\ oracle'.at = s /\ oracle'.call = oracle.call /\ oracle'.got = got
      /\ oracle' = [at |-> oracle'.at, call |-> oracle'.call, port |-> oracle'.port, got |-> oracle'.got]
  BY <1>2, <1>5, Zenon
<1>7. RequestForm(oracle')
  BY <1>1, <1>3, <1>6 DEF RequestForm
<1>9. ResultsOK(oracle)'
  <2>1. ASSUME NEW i \in 1 .. n PROVE ResultOK(got[i], c.urls[i])'
    <3>1. CASE i = n
      BY <1>3, <1>8, <3>1
    <3>2. CASE i \in 1 .. Len(oracle.got)
      <4>1. ResultOK(got[i], c.urls[i])
        BY <1>0, <1>1, <1>3, <3>2 DEF ResultsOK
      <4> QED
        BY <4>1, ResultStays DEF OracleInv
    <3> QED
      BY <1>3, <3>1, <3>2
  <2> QED
    BY <1>0, <1>3, <1>6, <2>1 DEF ResultsOK
<1>10. \A a \in Delivered' : SaleOK(a)'
  BY <1>2, SaleStays DEF OracleInv, Delivered
<1> QED
  BY <1>1, <1>3, <1>4, <1>6, <1>7, <1>9, <1>10 DEF OracleInv

LEMMA FetchedKeeps ==
  ASSUME OracleInv, chain' \in Seq(Anchors), ChainStays, oracle.at = "fetch",
         NEW r \in Results, NEW url, url = Url, ResultOK(r, url)', attestValue(r)
  PROVE  OracleInv'
<1>1. CASE extractBySelector(r.body, oracle.call.selector) = {}
  <2>1. Answer(422, {})
    BY <1>1 DEF attestValue
  <2> QED
    BY <2>1, NoSaleKeeps
<1> QED
  BY <1>1, AttestKeeps

LEMMA SameChain == ASSUME OracleInv, UNCHANGED chain PROVE chain' \in Seq(Anchors) /\ ChainStays
BY DEF OracleInv, ChainStays

LEMMA RefuseKeeps == ASSUME OracleInv, RefuseCall \/ FetchFails PROVE OracleInv'
<1>1. CASE RefuseCall
  <2>1. chain' \in Seq(Anchors) /\ ChainStays
    BY <1>1, SameChain DEF RefuseCall
  <2> QED
    BY <1>1, <2>1, NoSaleKeeps DEF RefuseCall
<1>2. CASE FetchFails
  <2> DEFINE s == IF SafeUrl(Url) THEN 502 ELSE 400
  <2>1. chain' \in Seq(Anchors) /\ ChainStays
    BY <1>2, SameChain DEF FetchFails
  <2>2. Answer(s, {}) /\ s # 200
    BY <1>2 DEF FetchFails
  <2> HIDE DEF s
  <2> QED
    BY <2>1, <2>2, NoSaleKeeps
<1> QED
  BY <1>1, <1>2

LEMMA DirectKeeps == ASSUME OracleInv, FetchDirect PROVE OracleInv'
<1>1. PICK body \in Bodies[Url] : attestValue(Attested(Url, body, body, 0))
  BY DEF FetchDirect
<1>2. PICK url, r : url = Url /\ r = Attested(Url, body, body, 0)
  OBVIOUS
<1>3. url \in SafeUrls /\ oracle.at = "fetch" /\ chain' \in Seq(Anchors) /\ ChainStays
  BY <1>2, SameChain DEF FetchDirect, SafeUrl
<1>4. r = [url |-> url, body |-> body, digest |-> body, tx |-> 0] /\ body \in AllBodies
  BY <1>1, <1>2, <1>3 DEF Attested, AllBodies
<1>5. r \in Results /\ r.tx = 0 /\ r.digest = r.body /\ r.url = url
  BY <1>3, <1>4 DEF Results
<1>6. ResultOK(r, url)'
  BY <1>5 DEF ResultOK
<1> QED
  BY <1>1, <1>2, <1>3, <1>5, <1>6, FetchedKeeps

LEMMA DahrKeeps == ASSUME OracleInv, FetchDahr PROVE OracleInv'
<1>1. PICK body \in Bodies[Url], reported \in {{}} \cup {{b} : b \in Bodies[Url]} :
        /\ chain' = Append(chain, [url |-> Url, hash |-> reported, confirmed |-> FALSE])
        /\ IF NodeHashHolds(reported, body)
           THEN attestValue(Attested(Url, body, IF reported = {} THEN body ELSE CHOOSE h \in reported : TRUE, AnchorRef))
           ELSE Answer(502, {})
  BY DEF FetchDahr
<1>2. PICK url, e, n : url = Url /\ e = [url |-> Url, hash |-> reported, confirmed |-> FALSE] /\ n = Len(chain')
  OBVIOUS
<1>3. url \in SafeUrls /\ oracle.at = "fetch" /\ Bodies[url] \subseteq AllBodies
  BY <1>2 DEF FetchDahr, SafeUrl, AllBodies
<1>4. e \in Anchors /\ e.url = url /\ e.hash = reported /\ body \in AllBodies
  BY <1>1, <1>2, <1>3 DEF Anchors
<1>5. chain' \in Seq(Anchors) /\ ChainStays /\ n \in 1 .. Len(chain') /\ n \in Nat /\ n # 0 /\ chain'[n] = e
  BY <1>1, <1>2, <1>4 DEF OracleInv, ChainStays
<1>6. CASE ~NodeHashHolds(reported, body)
  BY <1>1, <1>5, <1>6, NoSaleKeeps
<1>7. CASE NodeHashHolds(reported, body)
  <2> DEFINE d == IF reported = {} THEN body ELSE CHOOSE h \in reported : TRUE
  <2>1. d = body /\ (reported = {} \/ reported = {body})
    BY <1>1, <1>7 DEF NodeHashHolds
  <2> HIDE DEF d
  <2>2. PICK r : r = Attested(Url, body, d, AnchorRef)
    OBVIOUS
  <2>3. attestValue(r)
    BY <1>1, <1>7, <2>2 DEF d
  <2>4. r = [url |-> url, body |-> body, digest |-> body, tx |-> n]
    BY <1>2, <2>1, <2>2 DEF Attested, AnchorRef
  <2>5. r \in Results /\ r.tx = n /\ r.digest = r.body /\ r.url = url /\ r.body = body
    BY <1>3, <1>4, <1>5, <2>4 DEF Results
  <2>6. ResultOK(r, url)'
    BY <1>4, <1>5, <2>1, <2>5 DEF ResultOK
  <2> QED
    BY <1>2, <1>3, <1>5, <2>3, <2>5, <2>6, FetchedKeeps
<1> QED
  BY <1>6, <1>7

LEMMA SameDesk ==
  ASSUME OracleInv, UNCHANGED <<oracle, answers>>, chain' \in Seq(Anchors), ChainStays
  PROVE  OracleInv'
<1>1. PICK o : o = oracle
  OBVIOUS
<1>2. ASSUME oracle.at # "idle" PROVE ResultsOK(oracle)'
  <2>1. ResultsOK(o)
    BY <1>1, <1>2 DEF OracleInv
  <2>2. ResultsOK(o)'
    BY <2>1, ResultStays DEF OracleInv, ResultsOK
  <2> QED
    BY <1>1, <2>2 DEF ResultsOK
<1>3. \A a \in Delivered' : SaleOK(a)'
  BY SaleStays DEF OracleInv, Delivered
<1> QED
  BY <1>2, <1>3 DEF OracleInv

LEMMA ConfirmKeeps == ASSUME OracleInv, Confirm PROVE OracleInv'
<1>1. PICK i \in DOMAIN chain : chain' = [chain EXCEPT ![i].confirmed = TRUE]
  BY DEF Confirm
<1>2. UNCHANGED <<oracle, answers>>
  BY DEF Confirm
<1>3. i \in 1 .. Len(chain) /\ chain \in Seq(Anchors) /\ chain[i] \in Anchors
  BY <1>1 DEF OracleInv
<1>4. PICK e : e = [chain[i] EXCEPT !.confirmed = TRUE]
  OBVIOUS
<1>5. e \in Anchors /\ e.url = chain[i].url /\ e.hash = chain[i].hash
  BY <1>3, <1>4 DEF Anchors
<1>6. chain' = [chain EXCEPT ![i] = e]
  BY <1>1, <1>4
<1>7. chain' \in Seq(Anchors) /\ ChainStays
  BY <1>3, <1>5, <1>6 DEF ChainStays
<1> QED
  BY <1>2, <1>7, SameDesk

(* A sale is of values that agree: of the first source's, for one source.  *)
LEMMA SellKeeps == ASSUME OracleInv, Sell PROVE OracleInv'
<1> DEFINE sel == oracle.call.selector
           got == oracle.got
           values == [i \in DOMAIN oracle.got |-> extractBySelector(oracle.got[i].body, oracle.call.selector)]
<1>1. /\ RequestForm(oracle) /\ ResultsOK(oracle) /\ sel \in GoodSelectors /\ got \in Seq(Results)
      /\ Len(got) = Len(oracle.call.urls) /\ Len(got) > 0 /\ DOMAIN got = 1 .. Len(got) /\ Len(got) \in Nat
  BY DEF Sell, OracleInv, RequestForm
<1>2. UNCHANGED chain /\ IF Agree(values) THEN Answer(200, values[1]) ELSE Answer(422, {})
  BY DEF Sell
<1>3. chain' \in Seq(Anchors) /\ ChainStays
  BY <1>2, SameChain
<1>4. CASE ~Agree(values)
  BY <1>2, <1>3, <1>4, NoSaleKeeps
<1>5. CASE Agree(values)
  <2>1. PICK a : a = [no |-> asked, call |-> oracle.call, value |-> values[1], got |-> oracle.got, status |-> 200]
    OBVIOUS
  <2>2. answers' = answers \cup {a} /\ oracle'.at = "idle"
    BY <1>2, <1>5, <2>1 DEF Answer, IdleDesk
  <2>3. a.call = oracle.call /\ a.got = got /\ a.value = extractBySelector(got[1].body, sel)
    BY <1>1, <2>1
  <2>4. RequestForm([at |-> "sell", call |-> a.call, port |-> "direct", got |-> a.got])
    BY <1>1, <2>3 DEF RequestForm
  <2>5. ResultsOK(a)
    BY <1>1, <2>3 DEF ResultsOK
  <2>6. ASSUME NEW i \in 1 .. Len(got), NEW v \in extractBySelector(got[i].body, sel), NEW w \in a.value
        PROVE  v.text = w.text /\ v.shape = w.shape
    <3>1. v \in values[i] /\ w \in values[1] /\ i \in DOMAIN values
      BY <1>1, <2>3, <2>6
    <3>2. v.text = w.text
      BY <1>5, <3>1 DEF Agree
    <3>5. got[i] \in Results /\ got[1] \in Results
      BY <1>1
    <3>3. got[i].body \in AllBodies /\ got[1].body \in AllBodies
      BY <3>5 DEF Results
    <3>4. PICK u \in SafeUrls, x \in SafeUrls : got[i].body \in Bodies[u] /\ got[1].body \in Bodies[x]
      BY <3>3 DEF AllBodies
    <3> QED
      BY <1>1, <2>3, <2>6, <3>2, <3>4, OracleAssumption
  <2>7. SaleOK(a)
    BY <1>1, <2>3, <2>4, <2>5, <2>6 DEF SaleOK
  <2>8. \A d \in Delivered' : SaleOK(d)
    BY <2>2, <2>7 DEF OracleInv, Delivered
  <2>9. \A d \in Delivered' : SaleOK(d)'
    BY <1>3, <2>8, SaleStays DEF OracleInv
  <2> QED
    BY <1>3, <2>2, <2>9 DEF OracleInv
<1> QED
  BY <1>4, <1>5

LEMMA OracleInvHolds == MCSpec => []OracleInv
<1>1. OracleInv /\ [OracleNext]_oracleVars => OracleInv'
  <2> SUFFICES ASSUME OracleInv, [OracleNext]_oracleVars PROVE OracleInv'
    OBVIOUS
  <2>1. CASE UNCHANGED oracleVars
    <3>1. UNCHANGED <<oracle, answers>> /\ chain' \in Seq(Anchors) /\ ChainStays
      BY <2>1, SameChain DEF oracleVars
    <3> QED
      BY <3>1, SameDesk
  <2> QED
    BY <2>1, AskKeepsOracle, RefuseKeeps, DirectKeeps, DahrKeeps, SellKeeps, ConfirmKeeps DEF OracleNext
<1> QED
  BY <1>1, OraclePart, OracleStarts, PTL

LEMMA OracleInvMeans ==
  ASSUME OracleInv PROVE EverySaleIsObserved /\ ConsensusIsAgreement /\ AnchorIsOfTheBody
<1>1. ASSUME NEW a \in Delivered
      PROVE  /\ SaleOK(a) /\ a.got \in Seq(Results) /\ DOMAIN a.got = 1 .. Len(a.got) /\ 1 \in DOMAIN a.got
             /\ DOMAIN chain = 1 .. Len(chain)
  BY <1>1 DEF OracleInv, SaleOK, RequestForm
<1>2. ASSUME NEW a \in Delivered, NEW i \in DOMAIN a.got
      PROVE  /\ a.got[i].digest = a.got[i].body /\ a.got[i].url = a.call.urls[i]
             /\ a.got[i].tx # 0 => /\ a.got[i].tx \in DOMAIN chain /\ chain[a.got[i].tx].url = a.got[i].url
                                   /\ \/ chain[a.got[i].tx].hash = {}
                                      \/ chain[a.got[i].tx].hash = {a.got[i].body}
  <2>1. PICK r, url : r = a.got[i] /\ url = a.call.urls[i]
    OBVIOUS
  <2>2. ResultOK(r, url)
    BY <1>1, <1>2, <2>1 DEF SaleOK, ResultsOK
  <2>3. /\ r.digest = r.body /\ r.url = url
        /\ r.tx # 0 => /\ r.tx \in DOMAIN chain /\ chain[r.tx].url = r.url
                       /\ chain[r.tx].hash = {} \/ chain[r.tx].hash = {r.body}
    BY <1>1, <2>2 DEF ResultOK
  <2> QED
    BY <2>1, <2>3
<1>3. EverySaleIsObserved
  <2>1. ASSUME NEW a \in Delivered PROVE oracleObserveDelivered(a)
    <3>1. SaleOK(a) /\ 1 \in DOMAIN a.got /\ 1 \in 1 .. Len(a.got)
      BY <1>1
    <3>2. \A v \in extractBySelector(a.got[1].body, a.call.selector), w \in a.value : v.text = w.text
      BY <3>1 DEF SaleOK
    <3>3. a.got[1].digest = a.got[1].body /\ a.got[1].url = a.call.urls[1]
      BY <1>2, <3>1
    <3> QED
      BY <3>2, <3>3 DEF oracleObserveDelivered, verifyAttestation
  <2> QED
    BY <1>2, <2>1 DEF EverySaleIsObserved, verifyAttestation
<1>4. ConsensusIsAgreement
  BY <1>1 DEF ConsensusIsAgreement, SaleOK
<1>5. AnchorIsOfTheBody
  BY <1>2 DEF AnchorIsOfTheBody, verifyLiveAnchorOnChain
<1> QED
  BY <1>3, <1>4, <1>5

(* The oracle and the sponsored posts, whatever is asked, answered, lost   *)
(* or retried: what is sold was observed, a consensus is an agreement, an  *)
(* anchor is of the body; a paid text is posted once, under its            *)
(* reservation, and what is handed over is that post.                      *)
THEOREM SalesHold == MCSpec => []SalesAreSound
<1>1. OracleInv /\ PostInv => SalesAreSound
  BY OracleInvMeans, PostInvMeans DEF SalesAreSound
<1> QED
  BY <1>1, OracleInvHolds, PostInvHolds, PTL

-----------------------------------------------------------------------------
(* EvalBot.                                                                *)

LEMMA EvalPart == MCSpec => (EvalInit \/ RestEval) /\ [][EvalNext]_evalVars
<1>1. MCInit => EvalInit \/ RestEval
  BY Zenon DEF MCInit, DesksInit, RestDesks
<1>2. [MCNext]_mcVars => [EvalNext]_evalVars
  BY Zenon DEF MCNext, DesksNext, mcVars, deskVars
<1> QED
  BY <1>1, <1>2, PTL DEF MCSpec

EvalForm(e) == e = [at |-> e.at, rubric |-> e.rubric, content |-> e.content, scores |-> e.scores]

(* What is scored under a rubric that validates is a score, and a ruling   *)
(* scores the criteria of its rubric.                                      *)
ScoresAll(r) == r.results = [i \in DOMAIN evaljob.rubric.criteria |-> ScoreOf(i)]
RulingInv ==
  /\ EvalForm(evaljob)
  /\ evaljob.at \in {"rule", "ruled"} => validateRubric(evaljob.rubric) /\ \A s \in evaljob.scores : s[2] \in 0 .. 100
  /\ ruling # {} => evaljob.at = "ruled"
  /\ \A r \in ruling : verifyRulingUnder(r, evaljob.rubric) /\ ScoresAll(r)

(* A writer's copy is a beginning of the file.  Of two that were under way *)
(* together, one appends to a file that has grown since it was read.       *)
Lines(file) == {file[i] : i \in 1 .. Len(file)}
FileForm(file) == Len(file) \in Nat /\ file \in Seq(Lines(file))
LineOK(e) == e.seq \in Nat /\ e.hash = computeEntryHash(e.seq, e.prev, e.ruling) /\ verifyRuling(e.ruling)
BeginningOf(s, file) == Len(s) <= Len(file) /\ \A i \in 1 .. Len(s) : s[i] = file[i]
InOrder(file) ==
  \A i \in 1 .. Len(file) :
    file[i].seq = i /\ file[i].prev = IF i = 1 THEN GENESIS ELSE file[i - 1].hash
Misplaced(file) == \E i \in 1 .. Len(file) : file[i].seq # i
Behind == \E w \in RulingWriters : \E s \in snapshot[w] : Len(s) < Len(ledger)
Together == \E v, w \in RulingWriters : v # w /\ snapshot[v] # {} /\ snapshot[w] # {}
LedgerInv ==
  /\ FileForm(ledger) /\ snapshot = [w \in RulingWriters |-> snapshot[w]]
  /\ \A i \in 1 .. Len(ledger) : LineOK(ledger[i])
  /\ Len(ledger) > 0 => ledger[1].seq = 1 /\ ledger[1].prev = GENESIS
  /\ \A w \in RulingWriters : \A s \in snapshot[w] : FileForm(s) /\ BeginningOf(s, ledger)
  /\ \A w \in RulingWriters : \A s, t \in snapshot[w] : s = t
  /\ ~overlapped => InOrder(ledger) /\ ~Behind /\ ~Together
  /\ overlapped => Misplaced(ledger) \/ Behind \/ Together


LEMMA RulingStarts == EvalInit \/ RestEval => RulingInv
<1> SUFFICES ASSUME EvalInit \/ RestEval PROVE RulingInv
  OBVIOUS
<1>1. /\ EvalForm(evaljob) /\ evaljob.at \in {"judge", "failed"}
      /\ ruling = {}
  BY DEF EvalInit, RestEval, EvalForm
<1> QED
  BY <1>1 DEF RulingInv

(* The judge's numbers are clamped, so that every one of them is a score.  *)
LEMMA ClampScores == ASSUME NEW v \in JudgeScores PROVE Clamp(v) \in 0 .. 100
BY EvalAssumption DEF Clamp

LEMMA JudgeKeeps == ASSUME RulingInv, JudgeAnswers PROVE RulingInv'
<1> DEFINE Given == {{}} \cup {{Clamp(v)} : v \in JudgeScores}
           All(answer) == UNION {{<<i, v>> : v \in answer[i]} : i \in DOMAIN answer}
<1>1. PICK answer \in [Subjective(evaljob.rubric) -> Given] :
           evaljob' = [evaljob EXCEPT !.at = "rule", !.scores = All(answer)]
  BY Zenon DEF JudgeAnswers
<1>2. /\ evaljob.at = "judge" /\ validateRubric(evaljob.rubric) /\ ruling' = ruling
  BY DEF JudgeAnswers
<1>3. \A i \in DOMAIN answer : \A v \in answer[i] : v \in 0 .. 100
  <2> SUFFICES ASSUME NEW i \in DOMAIN answer, NEW v \in answer[i] PROVE v \in 0 .. 100
    OBVIOUS
  <2>1. answer[i] \in Given
    OBVIOUS
  <2>2. PICK x \in JudgeScores : answer[i] = {Clamp(x)}
    BY <2>1
  <2> QED
    BY <2>2, ClampScores
<1>4. \A s \in All(answer) : s[2] \in 0 .. 100
  BY <1>3
<1> DEFINE scores == All(answer)
<1> HIDE DEF All, Given, scores
<1>5. evaljob' = [evaljob EXCEPT !.at = "rule", !.scores = scores] /\ \A s \in scores : s[2] \in 0 .. 100
  BY <1>1, <1>4 DEF scores
<1>6. EvalForm(evaljob)' /\ evaljob'.at = "rule" /\ evaljob'.rubric = evaljob.rubric /\ evaljob'.scores = scores
  BY <1>5, Zenon DEF RulingInv, EvalForm
<1>7. ruling' = {}
  BY <1>2 DEF RulingInv
<1> QED
  BY <1>2, <1>5, <1>6, <1>7, Zenon DEF RulingInv

LEMMA RefusalKeeps == ASSUME RulingInv, Refuse PROVE RulingInv'
<1>1. /\ evaljob.at = "judge" /\ ruling' = ruling
      /\ evaljob' = [evaljob EXCEPT !.at = "failed"]
  BY DEF Refuse
<1>2. EvalForm(evaljob)' /\ evaljob'.at = "failed"
  BY <1>1 DEF RulingInv, EvalForm
<1> QED
  BY <1>1, <1>2 DEF RulingInv

(* What EvalBot signs is what verifyRuling derives again.                  *)
LEMMA RuleKeeps == ASSUME RulingInv, Evaluate PROVE RulingInv'
<1> DEFINE rubric == evaljob.rubric
           scored == [i \in DOMAIN rubric.criteria |-> ScoreOf(i)]
           agg == aggregateScores(scored)
           out == decideVerdict(agg, rubric)
           r == [results |-> scored, aggregate |-> agg.aggregate, mode |-> ModeOf(scored), verdict |-> out]
<1>1. /\ evaljob.at = "rule" /\ ruling' = {r}
      /\ evaljob' = [evaljob EXCEPT !.at = "ruled"]
  BY DEF Evaluate
<1>2. validateRubric(rubric) /\ \A s \in evaljob.scores : s[2] \in 0 .. 100
  BY <1>1 DEF RulingInv
<1>3. \A i \in DOMAIN scored : scored[i].weight > 0 /\ \A v \in scored[i].score : v \in 0 .. 100
  <2> SUFFICES ASSUME NEW i \in DOMAIN rubric.criteria
               PROVE ScoreOf(i).weight > 0 /\ \A v \in ScoreOf(i).score : v \in 0 .. 100
    OBVIOUS
  <2>1. ScoreOf(i).weight > 0
    BY <1>2 DEF validateRubric, ScoreOf
  <2>2. CASE rubric.criteria[i].kind = "mechanical"
    <3>1. ScoreOf(i).score \subseteq {0, 100}
      BY <2>2 DEF ScoreOf
    <3> QED
      BY <2>1, <3>1
  <2>3. CASE rubric.criteria[i].kind # "mechanical"
    <3>1. ScoreOf(i).score = {s[2] : s \in {x \in evaljob.scores : x[1] = i}}
      BY <2>3 DEF ScoreOf
    <3> QED
      BY <1>2, <2>1, <3>1
  <2> QED
    BY <2>2, <2>3
<1>4. TooLittle(agg) => out = "indeterminate"
  BY DEF decideVerdict
<1> HIDE DEF scored, agg, out
<1>5. /\ r.results = scored /\ r.aggregate = agg.aggregate /\ r.mode = ModeOf(scored) /\ r.verdict = out
  OBVIOUS
<1>6. aggregateScores(r.results) = agg
  BY <1>5 DEF agg
<1>7. out = decideVerdict(agg, rubric)
  BY DEF out
<1> HIDE DEF r, rubric
<1>8. verifyRulingUnder(r, rubric)
  BY <1>3, <1>4, <1>5, <1>6, <1>7, Zenon DEF verifyRulingUnder, verifyRuling, ModeOf
<1>9. EvalForm(evaljob)' /\ evaljob'.at = "ruled" /\ evaljob'.rubric = rubric /\ evaljob'.scores = evaljob.scores
  BY <1>1, Zenon DEF RulingInv, EvalForm, rubric
<1>10. evaljob'.content = evaljob.content
  BY <1>1, Zenon DEF RulingInv, EvalForm
<1>11. PICK x : x = r
  OBVIOUS
<1>12. ScoresAll(x)'
  <2>1. \A i : ScoreOf(i)' = ScoreOf(i)
    BY <1>9, <1>10, Zenon DEF ScoreOf, rubric
  <2>2. x.results = [i \in DOMAIN rubric.criteria |-> ScoreOf(i)]
    BY <1>5, <1>11 DEF scored
  <2>3. x.results = [i \in DOMAIN evaljob'.rubric.criteria |-> ScoreOf(i)']
    BY <1>9, <2>1, <2>2
  <2> QED
    BY <2>3, Zenon DEF ScoresAll
<1>13. ruling' = {x} /\ verifyRulingUnder(x, rubric)
  BY <1>1, <1>8, <1>11
<1> QED
  BY <1>2, <1>9, <1>12, <1>13, Zenon DEF RulingInv

(* The file: who reads it copies it, who appends adds a line.              *)
LEMMA ReadLedgerKeeps == ASSUME LedgerInv, NEW w \in RulingWriters, ReadLedger(w) PROVE LedgerInv'
<1>1. /\ snapshot[w] = {} /\ snapshot' = [snapshot EXCEPT ![w] = {ledger}] /\ ledger' = ledger
      /\ overlapped' = (overlapped \/ \E v \in RulingWriters : snapshot[v] # {})
  BY DEF ReadLedger
<1>2. /\ snapshot' = [v \in RulingWriters |-> snapshot'[v]] /\ snapshot'[w] = {ledger}
      /\ \A v \in RulingWriters : v # w => snapshot'[v] = snapshot[v]
  BY <1>1 DEF LedgerInv
<1>3. FileForm(ledger) /\ BeginningOf(ledger, ledger) /\ Len(ledger) \in Nat
  BY DEF LedgerInv, BeginningOf, FileForm
<1>4. \A v \in RulingWriters : \A s \in snapshot'[v] : FileForm(s) /\ BeginningOf(s, ledger)
  BY <1>2, <1>3 DEF LedgerInv
<1>5. \A v \in RulingWriters : \A s, t \in snapshot'[v] : s = t
  BY <1>2 DEF LedgerInv
<1>6. ASSUME ~overlapped' PROVE InOrder(ledger) /\ ~Behind' /\ ~Together'
  <2>1. ~overlapped /\ \A v \in RulingWriters : snapshot[v] = {}
    BY <1>1, <1>6
  <2>2. ~Behind'
    BY <1>1, <1>2, <1>3, <2>1 DEF Behind
  <2>3. ~Together'
    BY <1>2, <2>1 DEF Together
  <2> QED
    BY <2>1, <2>2, <2>3 DEF LedgerInv
<1>7. ASSUME overlapped' PROVE Misplaced(ledger) \/ Behind' \/ Together'
  <2>1. CASE Behind
    BY <1>1, <1>2, <2>1 DEF Behind
  <2>2. CASE Together
    BY <1>1, <1>2, <2>2 DEF Together
  <2>3. CASE \E v \in RulingWriters : snapshot[v] # {}
    BY <1>1, <1>2, <2>3 DEF Together
  <2> QED
    BY <1>1, <1>7, <2>1, <2>2, <2>3 DEF LedgerInv
<1> QED
  BY <1>1, <1>2, <1>4, <1>5, <1>6, <1>7 DEF LedgerInv

LEMMA LongerFile ==
  ASSUME NEW file, FileForm(file), NEW e
  PROVE  /\ FileForm(Append(file, e)) /\ Len(Append(file, e)) = Len(file) + 1
         /\ \A i \in 1 .. Len(file) : Append(file, e)[i] = file[i]
         /\ Append(file, e)[Len(file) + 1] = e
<1> DEFINE S == Lines(file) \cup {e}
<1>1. file \in Seq(S)
  BY DEF FileForm, Lines
<1> HIDE DEF S
<1>2. Append(file, e) \in Seq(S) /\ Len(Append(file, e)) = Len(file) + 1
  BY <1>1 DEF S
<1>3. /\ \A i \in 1 .. Len(file) : Append(file, e)[i] = file[i]
      /\ Append(file, e)[Len(file) + 1] = e
  BY <1>1 DEF S
<1>4. Append(file, e) \in Seq(Lines(Append(file, e)))
  <2> DEFINE longer == Append(file, e)
             L == Lines(longer)
  <2>1. \A i \in 1 .. Len(longer) : longer[i] \in L
    BY DEF Lines
  <2> HIDE DEF longer, L
  <2>2. longer \in Seq(S)
    BY <1>2 DEF longer
  <2>3. longer \in Seq(L)
    BY <2>1, <2>2
  <2> QED
    BY <2>3 DEF longer, L
<1> QED
  BY <1>2, <1>3, <1>4 DEF FileForm

LEMMA AppendKeeps == ASSUME RulingInv, LedgerInv, NEW w \in RulingWriters, AppendRuling(w) PROVE LedgerInv'
<1>1. PICK existing \in snapshot[w], r \in ruling :
        LET last == IF existing = <<>> THEN [seq |-> 0, hash |-> GENESIS] ELSE existing[Len(existing)]
            seq == last.seq + 1
        IN  ledger' = Append(ledger, [seq |-> seq, prev |-> last.hash, hash |-> computeEntryHash(seq, last.hash, r), ruling |-> r])
  BY DEF AppendRuling
<1> DEFINE last == IF existing = <<>> THEN [seq |-> 0, hash |-> GENESIS] ELSE existing[Len(existing)]
           seq == last.seq + 1
           e == [seq |-> seq, prev |-> last.hash, hash |-> computeEntryHash(seq, last.hash, r), ruling |-> r]
           n == Len(ledger)
           m == Len(existing)
<1>2. ledger' = Append(ledger, e)
  BY <1>1
<1>3. /\ snapshot' = [snapshot EXCEPT ![w] = {}] /\ overlapped' = overlapped
  BY DEF AppendRuling
<1>4. /\ snapshot' = [v \in RulingWriters |-> snapshot'[v]] /\ snapshot'[w] = {}
      /\ \A v \in RulingWriters : v # w => snapshot'[v] = snapshot[v]
  BY <1>3 DEF LedgerInv
<1>5. /\ FileForm(ledger) /\ FileForm(existing) /\ n \in Nat /\ m \in Nat /\ m <= n
      /\ \A i \in 1 .. m : existing[i] = ledger[i]
      /\ \A s \in snapshot[w] : s = existing
  BY DEF LedgerInv, FileForm, BeginningOf
<1>6. (existing = <<>>) = (m = 0)
  BY <1>5 DEF FileForm
<1>7. /\ m = 0 => last.seq = 0 /\ last.hash = GENESIS
      /\ m > 0 => last = ledger[m]
  BY <1>5, <1>6
<1>8. last.seq \in Nat
  <2>1. m > 0 => LineOK(ledger[m])
    BY <1>5 DEF LedgerInv
  <2> QED
    BY <1>5, <1>7, <2>1 DEF LineOK
<1>9. e.seq = last.seq + 1 /\ e.prev = last.hash /\ LineOK(e)
  <2>1. verifyRuling(r)
    BY DEF RulingInv, verifyRulingUnder
  <2> QED
    BY <1>8, <2>1 DEF LineOK
<1> HIDE DEF last, seq, e, m, n
<1>10. /\ FileForm(ledger)' /\ Len(ledger') = n + 1
       /\ \A i \in 1 .. n : ledger'[i] = ledger[i]
       /\ ledger'[n + 1] = e
  BY <1>2, <1>5, LongerFile DEF n
<1>11. \A i \in 1 .. Len(ledger') : LineOK(ledger'[i])
  BY <1>5, <1>9, <1>10 DEF LedgerInv, n
<1>12. Len(ledger') > 0 => ledger'[1].seq = 1 /\ ledger'[1].prev = GENESIS
  <2>1. CASE n = 0
    BY <1>5, <1>7, <1>9, <1>10, <2>1
  <2>2. CASE n > 0
    BY <1>5, <1>10, <2>2 DEF LedgerInv, n
  <2> QED
    BY <1>5, <2>1, <2>2
<1>13. \A v \in RulingWriters : \A s \in snapshot'[v] :
         /\ s \in snapshot[v] /\ v # w /\ FileForm(s) /\ BeginningOf(s, ledger)
         /\ Len(s) \in Nat /\ Len(s) <= n
  <2> SUFFICES ASSUME NEW v \in RulingWriters, NEW s \in snapshot'[v]
               PROVE  /\ s \in snapshot[v] /\ v # w /\ FileForm(s) /\ BeginningOf(s, ledger)
                      /\ Len(s) \in Nat /\ Len(s) <= n
    OBVIOUS
  <2>1. v # w /\ s \in snapshot[v]
    BY <1>4
  <2>2. FileForm(s) /\ BeginningOf(s, ledger)
    BY <2>1 DEF LedgerInv
  <2> QED
    BY <2>1, <2>2 DEF FileForm, BeginningOf, n
<1>14. \A v \in RulingWriters : \A s \in snapshot'[v] : FileForm(s) /\ BeginningOf(s, ledger)'
  BY <1>5, <1>10, <1>13 DEF BeginningOf, n
<1>15. \A v \in RulingWriters : \A s, t \in snapshot'[v] : s = t
  BY <1>13 DEF LedgerInv
<1>16. ASSUME ~overlapped PROVE InOrder(ledger)' /\ ~Behind' /\ ~Together'
  <2>1. InOrder(ledger) /\ ~Behind /\ ~Together
    BY <1>16 DEF LedgerInv
  <2>2. m = n
    BY <1>5, <2>1 DEF Behind, m, n
  <2>3. \A i \in 1 .. n : ledger[i].seq = i /\ ledger[i].prev = IF i = 1 THEN GENESIS ELSE ledger[i - 1].hash
    BY <2>1 DEF InOrder, n
  <2>4. e.seq = n + 1 /\ e.prev = IF n + 1 = 1 THEN GENESIS ELSE ledger[n].hash
    <3>1. CASE n = 0
      BY <1>7, <1>9, <2>2, <3>1
    <3>2. CASE n > 0
      <4>1. last = ledger[n] /\ ledger[n].seq = n
        BY <1>5, <1>7, <2>2, <2>3, <3>2
      <4> QED
        BY <1>5, <1>9, <3>2, <4>1
    <3> QED
      BY <1>5, <3>1, <3>2
  <2>5. \A i \in 1 .. n + 1 : ledger'[i].seq = i /\ ledger'[i].prev = IF i = 1 THEN GENESIS ELSE ledger'[i - 1].hash
    <3> SUFFICES ASSUME NEW i \in 1 .. n + 1
                 PROVE  ledger'[i].seq = i /\ ledger'[i].prev = IF i = 1 THEN GENESIS ELSE ledger'[i - 1].hash
      OBVIOUS
    <3>1. CASE i = n + 1
      BY <1>5, <1>10, <2>4, <3>1
    <3>2. CASE i # n + 1
      BY <1>5, <1>10, <2>3, <3>2
    <3> QED
      BY <3>1, <3>2
  <2>6. InOrder(ledger)'
    BY <1>10, <2>5 DEF InOrder
  <2>7. \A v \in RulingWriters : snapshot'[v] = {}
    BY <1>4, <2>1 DEF Together
  <2> QED
    BY <2>6, <2>7 DEF Behind, Together
<1>17. ASSUME overlapped PROVE Misplaced(ledger)' \/ Behind'
  <2>1. CASE Misplaced(ledger)
    BY <1>5, <1>10, <2>1 DEF Misplaced, n
  <2>2. ASSUME ~Misplaced(ledger), m < n PROVE Misplaced(ledger)'
    <3>1. last.seq = m
      <4>1. m > 0 => ledger[m].seq = m
        BY <1>5, <2>2 DEF Misplaced, n
      <4> QED
        BY <1>5, <1>7, <4>1
    <3>2. n + 1 \in 1 .. n + 1 /\ ledger'[n + 1].seq # n + 1
      BY <1>5, <1>9, <1>10, <2>2, <3>1
    <3> QED
      BY <1>10, <3>2 DEF Misplaced
  <2>3. ASSUME NEW v \in RulingWriters, v # w, snapshot[v] # {} PROVE Behind'
    <3>1. PICK s \in snapshot'[v] : TRUE
      BY <1>4, <2>3
    <3>2. Len(s) < Len(ledger')
      BY <1>5, <1>10, <1>13
    <3> QED
      BY <3>2 DEF Behind
  <2>4. ASSUME m = n, Behind PROVE \E v \in RulingWriters : v # w /\ snapshot[v] # {}
    BY <1>5, <2>4 DEF Behind, m, n
  <2>5. Together => \E v \in RulingWriters : v # w /\ snapshot[v] # {}
    BY DEF Together
  <2> QED
    BY <1>5, <1>17, <2>1, <2>2, <2>3, <2>4, <2>5 DEF LedgerInv
<1> QED
  BY <1>3, <1>4, <1>10, <1>11, <1>12, <1>14, <1>15, <1>16, <1>17, Zenon DEF LedgerInv

LEMMA LedgerStarts == EvalInit \/ RestEval => LedgerInv
<1> SUFFICES ASSUME EvalInit \/ RestEval PROVE LedgerInv
  OBVIOUS
<1>1. /\ ledger = <<>> /\ overlapped = FALSE
      /\ snapshot = [w \in RulingWriters |-> {}]
  BY DEF EvalInit, RestEval, Quiet
<1>2. FileForm(ledger) /\ Len(ledger) = 0
  BY <1>1 DEF FileForm, Lines
<1>3. ~Behind /\ ~Together
  BY <1>1 DEF Behind, Together
<1> QED
  BY <1>1, <1>2, <1>3 DEF LedgerInv, InOrder

LEMMA LedgerInvMeans == LedgerInv => ForkIsNoticed
<1> SUFFICES ASSUME LedgerInv, \A w \in RulingWriters : snapshot[w] = {}
             PROVE  verifyLedger(ledger) <=> (~overlapped \/ Len(ledger) < 2)
  BY DEF ForkIsNoticed
<1>1. DOMAIN ledger = 1 .. Len(ledger) /\ Len(ledger) \in Nat
  BY DEF LedgerInv, FileForm
<1>2. ~Behind /\ ~Together
  BY DEF Behind, Together
<1>3. \A i \in 1 .. Len(ledger) : /\ ledger[i].hash = computeEntryHash(ledger[i].seq, ledger[i].prev, ledger[i].ruling)
                                  /\ verifyRuling(ledger[i].ruling)
  BY DEF LedgerInv, LineOK
<1>4. ASSUME Len(ledger) < 2 PROVE InOrder(ledger)
  BY <1>1, <1>4 DEF LedgerInv, InOrder
<1>5. ~overlapped \/ Len(ledger) < 2 => InOrder(ledger)
  BY <1>4 DEF LedgerInv
<1>6. InOrder(ledger) => verifyLedger(ledger)
  BY <1>1, <1>3 DEF InOrder, verifyLedger
<1>7. verifyLedger(ledger) => ~Misplaced(ledger)
  BY <1>1 DEF verifyLedger, Misplaced
<1> QED
  BY <1>2, <1>5, <1>6, <1>7 DEF LedgerInv

-----------------------------------------------------------------------------
(* The gate: what the sums of a ruling come to under its rubrics.          *)

ScoredOf(x) == IF x.score = {} THEN 0 ELSE x.weight
PointsOf(x) == IF x.score = {} THEN 0 ELSE x.weight * (CHOOSE v \in x.score : TRUE)
OneOf(s) == CHOOSE x \in s : TRUE
ScoredTotal(res) == SumOf(ScoredOf, res)
PointsTotal(res) == SumOf(PointsOf, res)

(* The sum of val over a part of 1 .. 4, and the equation of the fold.       *)
Term(val, s, i) == IF i \in s THEN val[i] ELSE 0
Total(val, s) == Term(val, s, 1) + Term(val, s, 2) + Term(val, s, 3) + Term(val, s, 4)
SumsUp(g, val, S) == g = [s \in SUBSET S |-> IF s = {} THEN 0 ELSE g[s \ {OneOf(s)}] + val[OneOf(s)]]

LEMMA OneIsIn == ASSUME NEW s, s # {} PROVE OneOf(s) \in s
<1>1. \E x \in s : TRUE
  OBVIOUS
<1> QED
  BY <1>1 DEF OneOf

LEMMA TotalSteps ==
  ASSUME NEW val \in [1 .. 4 -> Int], NEW s \in SUBSET (1 .. 4), NEW x \in s
  PROVE  Total(val, s) = Total(val, s \ {x}) + val[x]
<1>1. x \in {1, 2, 3, 4} /\ val[1] \in Int /\ val[2] \in Int /\ val[3] \in Int /\ val[4] \in Int
  OBVIOUS
<1>2. \A i \in {1, 2, 3, 4} : Term(val, s, i) \in Int /\ Term(val, s \ {x}, i) = IF i = x THEN 0 ELSE Term(val, s, i)
  BY <1>1 DEF Term
<1>3. Term(val, s, x) = val[x]
  BY DEF Term
<1> QED
  BY <1>1, <1>2, <1>3 DEF Total

LEMMA TotalSumsUp ==
  ASSUME NEW val \in [1 .. 4 -> Int], NEW S \in SUBSET (1 .. 4)
  PROVE  SumsUp([s \in SUBSET S |-> Total(val, s)], val, S)
<1> DEFINE G == [s \in SUBSET S |-> Total(val, s)]
<1>1. ASSUME NEW s \in SUBSET S, s # {} PROVE G[s] = G[s \ {OneOf(s)}] + val[OneOf(s)]
  BY <1>1, OneIsIn, TotalSteps
<1>2. Total(val, {}) = 0
  BY DEF Total, Term
<1> QED
  BY <1>1, <1>2 DEF SumsUp

(* The equation has one solution, size by size.                            *)
LEMMA SumIsTotal ==
  ASSUME NEW val \in [1 .. 4 -> Int], NEW S \in SUBSET (1 .. 4), NEW g, SumsUp(g, val, S)
  PROVE  g[S] = Total(val, S)
<1> DEFINE Right(s) == s \in SUBSET S => g[s] = Total(val, s)
<1>1. Right({})
  BY DEF SumsUp, Total, Term
<1>2. ASSUME NEW s, s # {}, Right(s \ {OneOf(s)}) PROVE Right(s)
  <2> SUFFICES ASSUME s \in SUBSET S PROVE g[s] = Total(val, s)
    OBVIOUS
  <2>1. g[s] = g[s \ {OneOf(s)}] + val[OneOf(s)]
    BY <1>2 DEF SumsUp
  <2>2. Total(val, s) = Total(val, s \ {OneOf(s)}) + val[OneOf(s)]
    BY <1>2, OneIsIn, TotalSteps
  <2> QED
    BY <1>2, <2>1, <2>2
<1> HIDE DEF Right
<1>3. ASSUME NEW a, NEW s, s \subseteq {a} PROVE Right(s)
  <2>1. CASE s = {}
    BY <1>1, <2>1
  <2>2. CASE s # {}
    <3>1. OneOf(s) \in s
      BY <2>2, OneIsIn
    <3>2. s \ {OneOf(s)} = {}
      BY <1>3, <3>1
    <3> QED
      BY <1>1, <1>2, <2>2, <3>2
  <2> QED
    BY <2>1, <2>2
<1>4. ASSUME NEW a, NEW b, NEW s, s \subseteq {a, b} PROVE Right(s)
  <2>1. CASE s = {}
    BY <1>1, <2>1
  <2>2. CASE s # {}
    <3>1. OneOf(s) \in s
      BY <2>2, OneIsIn
    <3>2. s \ {OneOf(s)} \subseteq {a} \/ s \ {OneOf(s)} \subseteq {b}
      BY <1>4, <3>1
    <3> QED
      BY <1>2, <1>3, <2>2, <3>2
  <2> QED
    BY <2>1, <2>2
<1>5. ASSUME NEW a, NEW b, NEW c, NEW s, s \subseteq {a, b, c} PROVE Right(s)
  <2>1. CASE s = {}
    BY <1>1, <2>1
  <2>2. CASE s # {}
    <3>1. OneOf(s) \in s
      BY <2>2, OneIsIn
    <3>2. \/ s \ {OneOf(s)} \subseteq {a, b} \/ s \ {OneOf(s)} \subseteq {a, c}
          \/ s \ {OneOf(s)} \subseteq {b, c}
      BY <1>5, <3>1
    <3> QED
      BY <1>2, <1>4, <2>2, <3>2
  <2> QED
    BY <2>1, <2>2
<1>6. CASE S = {}
  BY <1>1, <1>6 DEF Right
<1>7. CASE S # {}
  <2>1. OneOf(S) \in S
    BY <1>7, OneIsIn
  <2>2. S \subseteq {1, 2, 3, 4}
    OBVIOUS
  <2>3. \/ S \ {OneOf(S)} \subseteq {1, 2, 3} \/ S \ {OneOf(S)} \subseteq {1, 2, 4}
        \/ S \ {OneOf(S)} \subseteq {1, 3, 4} \/ S \ {OneOf(S)} \subseteq {2, 3, 4}
    BY <2>1, <2>2
  <2>4. Right(S)
    BY <1>2, <1>5, <1>7, <2>3
  <2> QED
    BY <2>4 DEF Right
<1> QED
  BY <1>6, <1>7

(* What the fold over the results of a ruling is.                          *)
LEMMA ScoredSum ==
  ASSUME NEW res, NEW val \in [1 .. 4 -> Int], DOMAIN res \in SUBSET (1 .. 4), \A i \in DOMAIN res : val[i] = ScoredOf(res[i])
  PROVE  ScoredTotal(res) = Total(val, DOMAIN res)
<1> DEFINE S == DOMAIN res
           Up(iter) == iter = [s \in SUBSET DOMAIN res |-> IF s = {} THEN 0 ELSE iter[s \ {CHOOSE x \in s : TRUE}] + ScoredOf(res[CHOOSE x \in s : TRUE])]
<1>1. ScoredTotal(res) = (CHOOSE iter : Up(iter))[DOMAIN res]
  BY Zenon DEF ScoredTotal, SumOf, FoldFunction, FoldFunctionOnSet, MapThenFoldSet, ScoredOf
<1>2. ASSUME NEW iter PROVE Up(iter) <=> SumsUp(iter, val, S)
  <2>1. \A s \in SUBSET S : s # {} => ScoredOf(res[OneOf(s)]) = val[OneOf(s)]
    BY OneIsIn
  <2> QED
    BY <2>1 DEF SumsUp, OneOf
<1>3. Up([s \in SUBSET S |-> Total(val, s)])
  BY <1>2, TotalSumsUp
<1> HIDE DEF Up
<1>4. Up(CHOOSE iter : Up(iter))
  BY <1>3
<1> QED
  BY <1>1, <1>2, <1>4, SumIsTotal
LEMMA PointsSum ==
  ASSUME NEW res, NEW val \in [1 .. 4 -> Int], DOMAIN res \in SUBSET (1 .. 4), \A i \in DOMAIN res : val[i] = PointsOf(res[i])
  PROVE  PointsTotal(res) = Total(val, DOMAIN res)
<1> DEFINE S == DOMAIN res
           Up(iter) == iter = [s \in SUBSET DOMAIN res |-> IF s = {} THEN 0 ELSE iter[s \ {CHOOSE x \in s : TRUE}] + PointsOf(res[CHOOSE x \in s : TRUE])]
<1>1. PointsTotal(res) = (CHOOSE iter : Up(iter))[DOMAIN res]
  BY Zenon DEF PointsTotal, SumOf, FoldFunction, FoldFunctionOnSet, MapThenFoldSet, PointsOf
<1>2. ASSUME NEW iter PROVE Up(iter) <=> SumsUp(iter, val, S)
  <2>1. \A s \in SUBSET S : s # {} => PointsOf(res[OneOf(s)]) = val[OneOf(s)]
    BY OneIsIn
  <2> QED
    BY <2>1 DEF SumsUp, OneOf
<1>3. Up([s \in SUBSET S |-> Total(val, s)])
  BY <1>2, TotalSumsUp
<1> HIDE DEF Up
<1>4. Up(CHOOSE iter : Up(iter))
  BY <1>3
<1> QED
  BY <1>1, <1>2, <1>4, SumIsTotal

LEMMA AggregateIs ==
  ASSUME NEW res
  PROVE  aggregateScores(res).aggregate =
           IF ScoredTotal(res) > 0 THEN {round2(PointsTotal(res), ScoredTotal(res))} ELSE {}
BY Zenon DEF aggregateScores, ScoredTotal, PointsTotal, SumOf, FoldFunction, FoldFunctionOnSet, MapThenFoldSet, ScoredOf, PointsOf

(* A rubric of mechanical criteria: what its checks have to add up to.     *)
Weighs(c, W) ==
  /\ W \in [1 .. 4 -> Int] /\ DOMAIN c \in SUBSET (1 .. 4)
  /\ \A i \in DOMAIN c : c[i].kind = "mechanical" /\ c[i].weight = W[i]
Passed(c) == {i \in DOMAIN c : runMechanicalCheck(c[i].id, evaljob.content)}

LEMMA MechanicalScore ==
  ASSUME NEW W, Weighs(evaljob.rubric.criteria, W), NEW t \in Int, evaljob.rubric.threshold = t, evaljob.rubric.band = 0,
         NEW res, res = [i \in DOMAIN evaljob.rubric.criteria |-> ScoreOf(i)],
         decideVerdict(aggregateScores(res), evaljob.rubric) = "accept",
         Total(W, DOMAIN evaljob.rubric.criteria) > 0
  PROVE  round2(100 * Total(W, Passed(evaljob.rubric.criteria)), Total(W, DOMAIN evaljob.rubric.criteria)) >= 100 * t
<1> DEFINE c == evaljob.rubric.criteria
           S == DOMAIN c
           P == Passed(c)
           val == [i \in 1 .. 4 |-> IF i \in P THEN 100 * W[i] ELSE 0]
           agg == aggregateScores(res)
<1>1. W \in [1 .. 4 -> Int] /\ S \in SUBSET (1 .. 4) /\ val \in [1 .. 4 -> Int] /\ P \in SUBSET S
  BY DEF Weighs, Passed
<1>2. DOMAIN res = S
  OBVIOUS
<1>3. ASSUME NEW i \in S PROVE W[i] = ScoredOf(res[i]) /\ val[i] = PointsOf(res[i])
  <2>1. c[i].kind = "mechanical" /\ c[i].weight = W[i] /\ W[i] \in Int
    BY <1>1, <1>3 DEF Weighs
  <2>2. res[i] = ScoreOf(i)
    BY <1>3
  <2>3. /\ res[i].weight = W[i]
        /\ res[i].score = {IF i \in P THEN 100 ELSE 0}
    BY <1>3, <2>1, <2>2 DEF ScoreOf, Passed
  <2>4. ScoredOf(res[i]) = W[i]
    BY <2>3 DEF ScoredOf
  <2> DEFINE x == IF i \in P THEN 100 ELSE 0
  <2>5. (CHOOSE v \in {x} : TRUE) = x
    OBVIOUS
  <2>6. val[i] = W[i] * x
    BY <1>1, <2>1
  <2>7. PointsOf(res[i]) = W[i] * x
    BY <2>3, <2>5 DEF PointsOf
  <2> QED
    BY <2>4, <2>6, <2>7
<1> HIDE DEF val, P, S
<1>4. ScoredTotal(res) = Total(W, S) /\ PointsTotal(res) = Total(val, S)
  <2>1. DOMAIN res \in SUBSET (1 .. 4) /\ val \in [1 .. 4 -> Int] /\ W \in [1 .. 4 -> Int]
    BY <1>1, <1>2
  <2>2. \A i \in DOMAIN res : W[i] = ScoredOf(res[i])
    BY <1>2, <1>3
  <2>3. \A i \in DOMAIN res : val[i] = PointsOf(res[i])
    BY <1>2, <1>3
  <2>4. ScoredTotal(res) = Total(W, DOMAIN res)
    BY <2>1, <2>2, ScoredSum, Zenon
  <2>5. PointsTotal(res) = Total(val, DOMAIN res)
    BY <2>1, <2>3, PointsSum, Zenon
  <2> QED
    BY <1>2, <2>4, <2>5
<1>5. Total(val, S) = 100 * Total(W, P)
  <2>1. \A i \in 1 .. 4 : Term(val, S, i) = 100 * Term(W, P, i) /\ Term(W, P, i) \in Int
    BY <1>1 DEF Term, val
  <2> QED
    BY <2>1 DEF Total
<1>6. agg.aggregate = {round2(100 * Total(W, P), Total(W, S))}
  BY <1>4, <1>5, AggregateIs DEF S
<1> DEFINE a == round2(100 * Total(W, P), Total(W, S))
<1>7. (CHOOSE v \in agg.aggregate : TRUE) = a
  BY <1>6
<1> HIDE DEF agg, a
<1>8. a >= 100 * t
  BY <1>7 DEF decideVerdict, agg
<1> QED
  BY <1>8 DEF a, P, S

LEMMA JoinedTuple == ASSUME NEW a, NEW b, NEW c PROVE <<a, b>> \o <<c>> = <<a, b, c>>
<1> DEFINE S == {a, b, c}
           t == <<a, b>> \o <<c>>
<1>1. <<a, b>> \in Seq(S) /\ <<c>> \in Seq(S) /\ Len(<<a, b>>) = 2 /\ Len(<<c>>) = 1
  OBVIOUS
<1>2. t \in Seq(S) /\ Len(t) = 3 /\ t[1] = a /\ t[2] = b /\ t[3] = c
  BY <1>1
<1> HIDE DEF t, S
<1>3. t = [i \in 1 .. 3 |-> t[i]]
  BY <1>2
<1>4. t = <<a, b, c>>
  BY <1>2, <1>3
<1> QED
  BY <1>4 DEF t

LEMMA LongerTuple == ASSUME NEW a, NEW b, NEW c, NEW d PROVE Append(<<a, b, c>>, d) = <<a, b, c, d>>
<1> DEFINE S == {a, b, c, d}
           t == Append(<<a, b, c>>, d)
<1>1. <<a, b, c>> \in Seq(S) /\ Len(<<a, b, c>>) = 3 /\ d \in S
  OBVIOUS
<1>2. t \in Seq(S) /\ Len(t) = 4 /\ t[1] = a /\ t[2] = b /\ t[3] = c /\ t[4] = d
  BY <1>1
<1> HIDE DEF t, S
<1>3. t = [i \in 1 .. 4 |-> t[i]]
  BY <1>2
<1>4. t = <<a, b, c, d>>
  BY <1>2, <1>3
<1> QED
  BY <1>4 DEF t

(* The rubrics of the gate, criterion by criterion.                        *)
LEMMA GateRubrics ==
  /\ rubricForOutcome(FALSE).criteria = <<Criterion("parses", 3), Criterion("substantive", 1)>>
  /\ rubricForOutcome(TRUE).criteria = <<Criterion("parses", 3), Criterion("substantive", 1), Criterion("well-formed", 2)>>
  /\ securityAuditEvaluationPolicy.criteria = <<Criterion("parses", 3), Criterion("substantive", 1),
                                                Criterion("well-formed", 2), Criterion("deterministic-coverage", 7)>>
<1> DEFINE a == Criterion("parses", 3)
           b == Criterion("substantive", 1)
           c == Criterion("well-formed", 2)
           d == Criterion("deterministic-coverage", 7)
<1>1. /\ rubricForOutcome(FALSE).criteria = <<a, b>> \o <<>>
      /\ rubricForOutcome(TRUE).criteria = <<a, b>> \o <<c>>
      /\ securityAuditEvaluationPolicy.criteria = Append(rubricForOutcome(TRUE).criteria, d)
  BY DEF rubricForOutcome, securityAuditEvaluationPolicy
<1> HIDE DEF a, b, c, d
<1>2. <<a, b>> \o <<>> = <<a, b>>
  OBVIOUS
<1>3. /\ rubricForOutcome(FALSE).criteria = <<a, b>>
      /\ rubricForOutcome(TRUE).criteria = <<a, b, c>>
      /\ securityAuditEvaluationPolicy.criteria = <<a, b, c, d>>
  <2>1. <<a, b>> \o <<c>> = <<a, b, c>>
    BY JoinedTuple, Zenon
  <2>2. Append(<<a, b, c>>, d) = <<a, b, c, d>>
    BY LongerTuple, Zenon
  <2> QED
    BY <1>1, <1>2, <2>1, <2>2, Zenon
<1> QED
  BY <1>3 DEF a, b, c, d


LEMMA GateOf ==
  ASSUME NEW r, ScoresAll(r), verifyRulingUnder(r, evaljob.rubric), r.verdict = "accept"
  PROVE  /\ evaljob.rubric \in {rubricForOutcome(TRUE), rubricForOutcome(FALSE), securityAuditEvaluationPolicy}
              => "parses" \in evaljob.content
         /\ evaljob.rubric = securityAuditEvaluationPolicy => "deterministic-coverage" \in evaljob.content
<1> DEFINE rubric == evaljob.rubric
           c == rubric.criteria
           content == evaljob.content
           res == [i \in DOMAIN c |-> ScoreOf(i)]
<1>1. decideVerdict(aggregateScores(res), rubric) = "accept"
  BY DEF ScoresAll, verifyRulingUnder
<1>2. "parses" \notin content => \A id \in {"parses", "well-formed", "deterministic-coverage"} : ~runMechanicalCheck(id, content)
  BY DEF runMechanicalCheck
<1>3. "deterministic-coverage" \notin content => ~runMechanicalCheck("deterministic-coverage", content)
  BY DEF runMechanicalCheck
<1>4. ASSUME NEW w3 \in {0, 2}, NEW w4 \in {0, 7}, NEW n \in {2, 3, 4}, DOMAIN c = 1 .. n,
             w3 = IF n > 2 THEN 2 ELSE 0, w4 = IF n > 3 THEN 7 ELSE 0,
             c[1] = Criterion("parses", 3), c[2] = Criterion("substantive", 1),
             n > 2 => c[3] = Criterion("well-formed", 2), n > 3 => c[4] = Criterion("deterministic-coverage", 7),
             NEW t \in {60, 70}, rubric.threshold = t, rubric.band = 0
      PROVE  /\ "parses" \in content
             /\ n = 4 /\ t = 70 => "deterministic-coverage" \in content
  <2> DEFINE W == [i \in 1 .. 4 |-> IF i = 1 THEN 3 ELSE IF i = 2 THEN 1 ELSE IF i = 3 THEN w3 ELSE w4]
             P == Passed(c)
  <2>1. W[1] = 3 /\ W[2] = 1 /\ W[3] = w3 /\ W[4] = w4 /\ W \in [1 .. 4 -> Int]
    OBVIOUS
  <2>2. \A i \in 1 .. n : c[i].kind = "mechanical" /\ c[i].weight = W[i]
    BY <1>4, <2>1 DEF Criterion
  <2> HIDE DEF W
  <2>3. Weighs(c, W)
    <3>1. 1 .. n \subseteq 1 .. 4
      BY <1>4
    <3>2. DOMAIN c \in SUBSET (1 .. 4) /\ \A i \in DOMAIN c : c[i].kind = "mechanical" /\ c[i].weight = W[i]
      BY <1>4, <2>2, <3>1
    <3> QED
      BY <2>1, <3>2, Zenon DEF Weighs
  <2>4. Total(W, DOMAIN c) = 4 + w3 + w4
    BY <1>4, <2>1 DEF Total, Term
  <2>5. round2(100 * Total(W, P), 4 + w3 + w4) >= 100 * t
    BY <1>1, <1>4, <2>3, <2>4, MechanicalScore
  <2>6. /\ 1 \in P => runMechanicalCheck("parses", content)
        /\ 3 \in P => n > 2 /\ runMechanicalCheck("well-formed", content)
        /\ 4 \in P => n > 3 /\ runMechanicalCheck("deterministic-coverage", content)
    BY <1>4 DEF Passed, Criterion
  <2> HIDE DEF P
  <2>7. ASSUME "parses" \notin content PROVE FALSE
    <3>1. Total(W, P) \in {0, 1}
      BY <1>2, <2>1, <2>6, <2>7 DEF Total, Term
    <3> QED
      BY <1>4, <2>5, <3>1 DEF round2
  <2>8. ASSUME n = 4, t = 70, "deterministic-coverage" \notin content PROVE FALSE
    <3>1. Total(W, P) \in 0 .. 6
      BY <1>3, <1>4, <2>1, <2>6, <2>8 DEF Total, Term
    <3> QED
      BY <1>4, <2>5, <2>8, <3>1 DEF round2
  <2> QED
    BY <2>7, <2>8
<1>5. rubric = rubricForOutcome(FALSE) => "parses" \in content
  <2> SUFFICES ASSUME rubric = rubricForOutcome(FALSE) PROVE "parses" \in content
    OBVIOUS
  <2>1. c = <<Criterion("parses", 3), Criterion("substantive", 1)>>
    BY GateRubrics
  <2>2. rubric.threshold = 60 /\ rubric.band = 0
    BY DEF rubricForOutcome
  <2> HIDE DEF c, rubric, content
  <2>3. DOMAIN c = 1 .. 2 /\ c[1] = Criterion("parses", 3) /\ c[2] = Criterion("substantive", 1)
    BY <2>1
  <2>4. /\ 0 = IF 2 > 2 THEN 2 ELSE 0
        /\ 0 = IF 2 > 3 THEN 7 ELSE 0
        /\ ~(2 > 2) /\ ~(2 > 3)
    OBVIOUS
  <2> QED
    BY <1>4, <2>2, <2>3, <2>4, Zenon
<1>6. rubric = rubricForOutcome(TRUE) => "parses" \in content
  <2> SUFFICES ASSUME rubric = rubricForOutcome(TRUE) PROVE "parses" \in content
    OBVIOUS
  <2>1. c = <<Criterion("parses", 3), Criterion("substantive", 1), Criterion("well-formed", 2)>>
    BY GateRubrics
  <2>2. rubric.threshold = 60 /\ rubric.band = 0
    BY DEF rubricForOutcome
  <2> HIDE DEF c, rubric, content
  <2>3. /\ DOMAIN c = 1 .. 3 /\ c[1] = Criterion("parses", 3) /\ c[2] = Criterion("substantive", 1)
        /\ c[3] = Criterion("well-formed", 2)
    BY <2>1
  <2>4. /\ 2 = IF 3 > 2 THEN 2 ELSE 0
        /\ 0 = IF 3 > 3 THEN 7 ELSE 0
        /\ ~(3 > 3)
    OBVIOUS
  <2> QED
    BY <1>4, <2>2, <2>3, <2>4, Zenon
<1>7. rubric = securityAuditEvaluationPolicy => "parses" \in content /\ "deterministic-coverage" \in content
  <2> SUFFICES ASSUME rubric = securityAuditEvaluationPolicy
               PROVE  "parses" \in content /\ "deterministic-coverage" \in content
    OBVIOUS
  <2>1. c = <<Criterion("parses", 3), Criterion("substantive", 1), Criterion("well-formed", 2), Criterion("deterministic-coverage", 7)>>
    BY GateRubrics
  <2>2. rubric.threshold = 70 /\ rubric.band = 0
    BY DEF securityAuditEvaluationPolicy
  <2> HIDE DEF c, rubric, content
  <2>3. /\ DOMAIN c = 1 .. 4 /\ c[1] = Criterion("parses", 3) /\ c[2] = Criterion("substantive", 1)
        /\ c[3] = Criterion("well-formed", 2) /\ c[4] = Criterion("deterministic-coverage", 7)
    BY <2>1
  <2>4. /\ 2 = IF 4 > 2 THEN 2 ELSE 0
        /\ 7 = IF 4 > 3 THEN 7 ELSE 0
    OBVIOUS
  <2> QED
    BY <1>4, <2>2, <2>3, <2>4, Zenon
<1> QED
  BY <1>5, <1>6, <1>7

LEMMA RulingInvMeans == RulingInv => EveryRulingVerifies /\ GateHolds
<1> SUFFICES ASSUME RulingInv PROVE EveryRulingVerifies /\ GateHolds
  OBVIOUS
<1>1. EveryRulingVerifies
  BY DEF RulingInv, EveryRulingVerifies
<1>2. GateHolds
  <2> SUFFICES ASSUME NEW r \in ruling, verifyRulingUnder(r, evaljob.rubric), r.verdict = "accept"
               PROVE  /\ evaljob.rubric \in {rubricForOutcome(TRUE), rubricForOutcome(FALSE), securityAuditEvaluationPolicy}
                           => "parses" \in evaljob.content
                      /\ evaljob.rubric = securityAuditEvaluationPolicy => "deterministic-coverage" \in evaljob.content
    BY Zenon DEF GateHolds, Accepted
  <2> QED
    BY GateOf DEF RulingInv
<1> QED
  BY <1>1, <1>2

LEMMA EvalInvHolds == MCSpec => [](RulingInv /\ LedgerInv)
<1>1. EvalInit \/ RestEval => RulingInv /\ LedgerInv
  BY RulingStarts, LedgerStarts
<1>2. RulingInv /\ LedgerInv /\ [EvalNext]_evalVars => RulingInv' /\ LedgerInv'
  <2> SUFFICES ASSUME RulingInv, LedgerInv, [EvalNext]_evalVars PROVE RulingInv' /\ LedgerInv'
    OBVIOUS
  <2>1. ASSUME UNCHANGED <<ledger, snapshot, overlapped>> PROVE LedgerInv'
    BY <2>1 DEF LedgerInv, Behind, Together
  <2>2. ASSUME UNCHANGED <<evaljob, ruling>> PROVE RulingInv'
    BY <2>2 DEF RulingInv, ScoresAll, ScoreOf
  <2>3. CASE JudgeAnswers
    <3>1. UNCHANGED <<ledger, snapshot, overlapped>>
      BY <2>3, Zenon DEF JudgeAnswers
    <3> QED
      BY <2>1, <2>3, <3>1, JudgeKeeps
  <2>4. CASE Refuse
    BY <2>1, <2>4, RefusalKeeps DEF Refuse
  <2>5. CASE Evaluate
    BY <2>1, <2>5, RuleKeeps DEF Evaluate
  <2>6. ASSUME NEW w \in RulingWriters, ReadLedger(w) PROVE RulingInv' /\ LedgerInv'
    BY <2>2, <2>6, ReadLedgerKeeps DEF ReadLedger
  <2>7. ASSUME NEW w \in RulingWriters, AppendRuling(w) PROVE RulingInv' /\ LedgerInv'
    BY <2>2, <2>7, AppendKeeps DEF AppendRuling
  <2>8. CASE UNCHANGED evalVars
    BY <2>1, <2>2, <2>8 DEF evalVars
  <2> QED
    BY <2>3, <2>4, <2>5, <2>6, <2>7, <2>8 DEF EvalNext
<1> QED
  BY <1>1, <1>2, EvalPart, PTL

(* A ruling EvalBot signs is confirmed from its scores and its rubric, the *)
(* buyer's gate accepts no report that is not JSON or leaves out what the  *)
(* buyer reproduced, and a fork of the ledger is noticed.                  *)
THEOREM RulingsHold == MCSpec => []RulingsAreSound
<1>1. RulingInv /\ LedgerInv => RulingsAreSound
  BY RulingInvMeans, LedgerInvMeans DEF RulingsAreSound
<1> QED
  BY <1>1, EvalInvHolds, PTL

-----------------------------------------------------------------------------
(* The security audit.                                                     *)

LEMMA AuditPart == MCSpec => (AuditInit \/ RestAudit) /\ [][AuditNext]_auditVars
<1>1. MCInit => AuditInit \/ RestAudit
  BY Zenon DEF MCInit, DesksInit, RestDesks
<1>2. [MCNext]_mcVars => [AuditNext]_auditVars
  BY Zenon DEF MCNext, DesksNext, mcVars, deskVars
<1> QED
  BY <1>1, <1>2, PTL DEF MCSpec

Files == [path : {f.path : f \in FilesOf}, content : EditContents \cup {f.content : f \in FilesOf}]
AudForm(x) ==
  x = [at |-> x.at, job |-> x.job, records |-> x.records, hits |-> x.hits, supp |-> x.supp, deps |-> x.deps,
       llm |-> x.llm, tools |-> x.tools, found |-> x.found, cleaned |-> x.cleaned]

(* The quick tier, on the way to its seal: what was recorded was read, and *)
(* what was found is of a record, or of a manifest that was read again.    *)
LastOf(records, path) ==
  {k \in DOMAIN records : records[k].path = path /\ \A l \in DOMAIN records : records[l].path = path => l <= k}
FoundIn(records, h) == \E i \in 1 .. Len(records) : records[i].path = h.path /\ records[i].content = h.of
InForce(f) ==
  {h \in f.content.hits : ~f.content.big /\ h.rule \in (IF f.path = "C.sol" THEN SOL_RULE_TABLE ELSE REPO_LINE_RULES)}
  \cup {[rule |-> "secret-file-committed", line |-> 1] : x \in {f.path} \cap {".env"}}
ShownBy(hits, supp, f, h) ==
  \/ \E x \in hits : x.path = f.path /\ x.rule = h.rule /\ x.line = h.line
  \/ Hit(f.path, f.content, h) \in supp /\ <<h.line, h.rule>> \in f.content.marks
HitOK(x, h) == /\ LastOf(x.records, h.path) # {} /\ h.rule \in RuleTable
               /\ FoundIn(x.records, h) \/ (h.rule = DEP_RULE /\ edits > 0)
QuickOK(x) ==
  /\ x.records \in Seq(Files) /\ Len(x.records) <= Len(tree)
  /\ \A i \in 1 .. Len(x.records) : x.records[i].path = tree[i].path /\ (edits = 0 => x.records[i] = tree[i])
  /\ \A i \in 1 .. Len(x.records) : LastOf(x.records, x.records[i].path) # {}
  /\ \A h \in x.hits : HitOK(x, h)
  /\ \A k \in 1 .. Len(x.records) : \A h \in InForce(x.records[k]) : ShownBy(x.hits, x.supp, x.records[k], h)
  /\ x.at = "seal" => \A p \in x.llm : LastOf(x.records, p) # {}

(* The deep tier: a tool runs once, and its run binds what it found.       *)
OriginOf(tool) == IF tool = "dep-advisory" THEN "advisory" ELSE IF tool = "llm-review" THEN "llm" ELSE "tool"
OwnOf(found, tool) == {f \in found : f.tool = tool}
NamesOf(tools) == {t.name : t \in tools}
FindingOK(f, tools) ==
  /\ f = [tool |-> f.tool, origin |-> f.origin, sev |-> f.sev, hash |-> f.hash]
  /\ f.hash = contentHash(f) /\ f.tool \in NamesOf(tools) /\ f.origin = OriginOf(f.tool) /\ f.sev \in AuditSeverities
DeepOK(tools, found) ==
  /\ \A f \in found : FindingOK(f, tools)
  /\ \A t \in tools : t.bound = toolFindingsHash(OwnOf(found, t.name)) /\ t.count = Cardinality(OwnOf(found, t.name))
  /\ \A t, u \in tools : t.name = u.name => t = u
DeepStages == {"tools", "advisory", "review", "seal-deep"}
AuditInv ==
  /\ AudForm(aud) /\ AuditsVerify
  /\ report # {} => aud.at \in {"sealed", "done"}
  /\ aud.at # "rest" => edits \in Nat /\ tree \in Seq(Files)
  /\ aud.at \in {"scan", "llm", "seal"} => QuickOK(aud)
  /\ aud.at \in {"fetch", "nosandbox"} => aud.tools = {} /\ aud.found = {}
  /\ aud.at \in DeepStages => DeepOK(aud.tools, aud.found)
  /\ aud.at = "tools" => RanNames \subseteq PlanTools /\ ~(PlanTools \subseteq RanNames)
  /\ aud.at = "advisory" => RanNames = PlanTools
  /\ aud.at = "review" => "semgrep" \in RanNames /\ "llm-review" \notin RanNames
  /\ aud.at = "seal-deep" => "semgrep" \in RanNames

(* The parts of AuditInv that concern either tier.                         *)
LEMMA AuditStarts == AuditInit \/ RestAudit => AuditInv
<1>1. ASSUME RestAudit PROVE AuditInv
  <2>1. aud = NoAudit /\ report = {}
    BY <1>1 DEF RestAudit
  <2>2. AudForm(aud) /\ aud.at = "rest"
    BY <2>1 DEF AudForm, NoAudit
  <2> QED
    BY <2>1, <2>2 DEF AuditInv, DeepStages, AuditsVerify, EveryAuditVerifies, FindingCitesItsContent,
                      NothingLost, DeepEditRefused, VerdictIsMechanical
<1>2. ASSUME AuditInit PROVE AuditInv
  <2>1. PICK j \in AuditJobs : /\ aud = [NoAudit EXCEPT !.at = IF j.tier = "quick" THEN "scan" ELSE "fetch", !.job = j]
                               /\ tree = j.files
    BY <1>2, Zenon DEF AuditInit
  <2>2. edits = 0 /\ report = {}
    BY <1>2 DEF AuditInit
  <2> DEFINE stage == IF j.tier = "quick" THEN "scan" ELSE "fetch"
  <2>3. aud = [NoAudit EXCEPT !.at = stage, !.job = j] /\ stage \in {"scan", "fetch"}
    BY <2>1
  <2> HIDE DEF stage
  <2>4. /\ AudForm(aud) /\ aud.at = stage /\ aud.records = <<>>
        /\ aud.hits = {} /\ aud.tools = {} /\ aud.found = {}
    BY <2>3 DEF AudForm, NoAudit
  <2>5. tree \in Seq(Files)
    <3>1. j.files \in Seq(FilesOf)
      BY AuditAssumption
    <3>2. \A f \in FilesOf : f \in Files
      BY AuditAssumption DEF Files
    <3> HIDE DEF FilesOf, Files
    <3> QED
      BY <2>1, <3>1, <3>2
  <2>6. QuickOK(aud) \/ aud.at # "scan"
    <3>1. aud.records \in Seq(Files) /\ Len(aud.records) = 0 /\ Len(tree) \in Nat
      <4> HIDE DEF Files
      <4> QED
        BY <2>4, <2>5
    <3> QED
      BY <2>3, <2>4, <3>1 DEF QuickOK
  <2>7. AuditsVerify
    BY <2>2 DEF AuditsVerify, EveryAuditVerifies, FindingCitesItsContent, NothingLost, DeepEditRefused, VerdictIsMechanical
  <2> QED
    BY <2>2, <2>3, <2>4, <2>5, <2>6, <2>7 DEF AuditInv, DeepStages
<1> QED
  BY <1>1, <1>2

(* A report only an edit happens to.                                       *)
LEMMA EditFileKeeps == ASSUME AuditInv, EditFile PROVE AuditInv'
<1>1. PICK i \in DOMAIN tree, c \in EditContents : tree' = [tree EXCEPT ![i].content = c]
  BY DEF EditFile
<1>2. /\ aud.at \in {"scan", "deps", "llm", "sealed"} /\ edits' = edits + 1
      /\ aud' = aud /\ report' = report
  BY DEF EditFile
<1>3. edits \in Nat /\ tree \in Seq(Files)
  BY <1>2 DEF AuditInv
<1>4. edits' \in Nat /\ edits' > 0 /\ (edits > 0 => edits' > 0)
  BY <1>2, <1>3
<1> DEFINE f == [tree[i] EXCEPT !.content = c]
<1>5. f \in Files /\ f.path = tree[i].path
  <2>1. tree[i] \in Files
    BY <1>3
  <2> QED
    BY <2>1 DEF Files
<1>6. tree' = [tree EXCEPT ![i] = f]
  BY <1>1
<1> HIDE DEF f
<1>7. tree' \in Seq(Files) /\ Len(tree') = Len(tree)
  <2> HIDE DEF Files
  <2> QED
    BY <1>3, <1>5, <1>6
<1>8. \A k \in 1 .. Len(tree) : tree'[k].path = tree[k].path
  <2> HIDE DEF Files
  <2> QED
    BY <1>3, <1>5, <1>6
<1>9. ASSUME QuickOK(aud) PROVE QuickOK(aud)'
  <2>1. Len(aud.records) <= Len(tree)
    BY <1>9 DEF QuickOK
  <2>2. \A k \in 1 .. Len(aud.records) : k \in 1 .. Len(tree)
    <3>1. Len(aud.records) \in Nat /\ Len(tree) \in Nat
      BY <1>3, <1>9 DEF QuickOK
    <3> QED
      BY <2>1, <3>1
  <2>3. \A k \in 1 .. Len(aud.records) : aud'.records[k].path = tree'[k].path /\ (edits' = 0 => aud'.records[k] = tree'[k])
    BY <1>2, <1>4, <1>8, <1>9, <2>2 DEF QuickOK
  <2>4. \A h \in aud.hits : HitOK(aud, h)'
    BY <1>2, <1>4, <1>9 DEF QuickOK, HitOK
  <2> QED
    BY <1>2, <1>7, <1>9, <2>1, <2>3, <2>4 DEF QuickOK
<1>10. AuditsVerify'
  <2>1. FindingCitesItsContent'
    BY <1>2, <1>4 DEF AuditInv, AuditsVerify, FindingCitesItsContent
  <2>2. /\ EveryAuditVerifies' /\ NothingLost'
        /\ DeepEditRefused' /\ VerdictIsMechanical'
    BY <1>2 DEF AuditInv, AuditsVerify, EveryAuditVerifies, NothingLost, DeepEditRefused, VerdictIsMechanical
  <2> QED
    BY <2>1, <2>2 DEF AuditsVerify
<1> QED
  BY <1>2, <1>4, <1>7, <1>9, <1>10 DEF AuditInv, DeepStages

(* What a step of a job that has no report yet leaves to be shown.         *)
LEMMA StageKeeps ==
  ASSUME AuditInv, report = {}, UNCHANGED <<tree, edits, report>>, aud.at # "rest", AudForm(aud'),
         \/ aud'.at \in {"unfetched", "thrown"}
         \/ aud'.at \in {"scan", "llm", "seal"} /\ QuickOK(aud)'
         \/ aud'.at = "nosandbox" /\ aud'.tools = {} /\ aud'.found = {}
         \/ /\ aud'.at = "tools" /\ DeepOK(aud.tools, aud.found)'
            /\ RanNames' \subseteq PlanTools /\ ~(PlanTools \subseteq RanNames')
         \/ aud'.at = "advisory" /\ DeepOK(aud.tools, aud.found)' /\ RanNames' = PlanTools
         \/ /\ aud'.at = "review" /\ DeepOK(aud.tools, aud.found)'
            /\ "semgrep" \in RanNames' /\ "llm-review" \notin RanNames'
         \/ aud'.at = "seal-deep" /\ DeepOK(aud.tools, aud.found)' /\ "semgrep" \in RanNames'
  PROVE  AuditInv'
<1>1. AuditsVerify'
  BY DEF AuditsVerify, EveryAuditVerifies, FindingCitesItsContent, NothingLost, DeepEditRefused, VerdictIsMechanical
<1>2. edits' \in Nat /\ tree' \in Seq(Files)
  BY DEF AuditInv
<1>3. PlanTools' = PlanTools
  BY DEF PlanTools
<1> QED
  BY <1>1, <1>2, <1>3 DEF AuditInv, DeepStages


(* The quick tier: what recordIdByPath finds, and what a scan finds.       *)
LEMMA RecordIsLast == ASSUME NEW p PROVE RecordOf(p) = LastOf(aud.records, p)
BY DEF RecordOf, LastOf

LEMMA RecordsGrow ==
  ASSUME NEW records \in Seq(Files), NEW f \in Files
  PROVE  /\ Append(records, f) \in Seq(Files) /\ Len(Append(records, f)) = Len(records) + 1
         /\ Append(records, f)[Len(records) + 1] = f
         /\ \A i \in 1 .. Len(records) : Append(records, f)[i] = records[i]
         /\ \A p : LastOf(records, p) # {} => LastOf(Append(records, f), p) # {}
         /\ LastOf(Append(records, f), f.path) # {}
         /\ \A h : FoundIn(records, h) => FoundIn(Append(records, f), h)
<1> DEFINE n == Len(records)
           more == Append(records, f)
<1>1. /\ more \in Seq(Files) /\ Len(more) = n + 1 /\ more[n + 1] = f /\ n \in Nat
      /\ \A i \in 1 .. n : more[i] = records[i]
      /\ DOMAIN records = 1 .. n /\ DOMAIN more = 1 .. n + 1
  <2> HIDE DEF Files
  <2> QED
    OBVIOUS
<1> HIDE DEF n, more
<1>2. n + 1 \in LastOf(more, f.path)
  BY <1>1 DEF LastOf
<1>3. ASSUME NEW p, LastOf(records, p) # {} PROVE LastOf(more, p) # {}
  <2>1. CASE p = f.path
    BY <1>2, <2>1
  <2>2. CASE p # f.path
    <3>1. PICK k \in LastOf(records, p) : TRUE
      BY <1>3
    <3>2. k \in LastOf(more, p)
      BY <1>1, <2>2, <3>1 DEF LastOf
    <3> QED
      BY <3>2
  <2> QED
    BY <2>1, <2>2
<1>4. \A h : FoundIn(records, h) => FoundIn(more, h)
  BY <1>1 DEF FoundIn, n
<1>5. /\ more \in Seq(Files) /\ Len(more) = Len(records) + 1 /\ more[Len(records) + 1] = f
      /\ \A i \in 1 .. Len(records) : more[i] = records[i]
      /\ \A p : LastOf(records, p) # {} => LastOf(more, p) # {}
      /\ LastOf(more, f.path) # {}
      /\ \A h : FoundIn(records, h) => FoundIn(more, h)
  BY <1>1, <1>2, <1>3, <1>4, Zenon DEF n
<1> QED
  BY <1>5, Zenon DEF more

(* Every hit of a scan is of a rule of the table; a hit in force is among  *)
(* them, or is silenced by a marker of its own.                            *)
LEMMA ScanFinds ==
  ASSUME NEW f, NEW r, r = scanFileContent(f.path, f.content)
  PROVE  /\ \A h \in r.hits : h.rule \in RuleTable
         /\ \A h \in InForce(f) : h \in r.hits \/ (h \in r.supp /\ <<h.line, h.rule>> \in f.content.marks)
<1> DEFINE all == RepoFileHits(f.path) \cup (IF isSolidityFile(f.path) THEN SolidityHits(f.content) ELSE RepoLineHits(f.content))
           supp == applySuppressions(all, f.content.marks)
<1>1. \A h \in RepoFileHits(f.path) : h.rule \in RuleTable
  BY DEF RepoFileHits, RuleTable
<1>2. \A h \in all : h.rule \in RuleTable
  BY <1>1 DEF SolidityHits, RepoLineHits, RuleTable
<1>3. \A h \in InForce(f) : h \in all /\ (f.content.big => h \in RepoFileHits(f.path))
  BY DEF InForce, RepoFileHits, SolidityHits, RepoLineHits, isSolidityFile
<1>4. \A h \in supp : <<h.line, h.rule>> \in f.content.marks
  BY DEF applySuppressions
<1>5. r.hits = (IF f.content.big THEN RepoFileHits(f.path) ELSE all \ supp) /\ r.supp = (IF f.content.big THEN {} ELSE supp)
  BY DEF scanFileContent
<1> QED
  BY <1>1, <1>2, <1>3, <1>4, <1>5

LEMMA AuditFileKeeps == ASSUME AuditInv, AuditFile PROVE AuditInv'
<1> DEFINE n == Len(aud.records)
           f == tree[n + 1]
           r == scanFileContent(f.path, f.content)
           records == Append(aud.records, f)
           hits == aud.hits \cup AsHits(f.path, f.content, r.hits)
           supp == aud.supp \cup AsHits(f.path, f.content, r.supp)
<1>1. /\ aud.at = "scan" /\ n < Len(tree)
      /\ UNCHANGED <<tree, edits, report>>
      /\ aud' = [aud EXCEPT !.records = records, !.hits = hits, !.supp = supp]
  BY DEF AuditFile
<1>2. QuickOK(aud) /\ tree \in Seq(Files) /\ edits \in Nat /\ AudForm(aud) /\ report = {}
  BY <1>1 DEF AuditInv
<1>3. n \in Nat /\ Len(tree) \in Nat /\ f \in Files /\ aud.records \in Seq(Files) /\ n + 1 \in 1 .. Len(tree)
  <2> HIDE DEF Files
  <2> QED
    BY <1>1, <1>2 DEF QuickOK
<1> HIDE DEF f
<1>4. /\ records \in Seq(Files) /\ Len(records) = n + 1 /\ records[n + 1] = f
      /\ \A i \in 1 .. n : records[i] = aud.records[i]
      /\ \A p : LastOf(aud.records, p) # {} => LastOf(records, p) # {}
      /\ LastOf(records, f.path) # {}
      /\ \A h : FoundIn(aud.records, h) => FoundIn(records, h)
  BY <1>3, RecordsGrow, Zenon
<1>5. /\ \A h \in r.hits : h.rule \in RuleTable
      /\ \A h \in InForce(f) : h \in r.hits \/ (h \in r.supp /\ <<h.line, h.rule>> \in f.content.marks)
  BY ScanFinds
<1> HIDE DEF records, r
<1>6. \A h \in hits : \/ h \in aud.hits
                      \/ h.path = f.path /\ h.of = f.content /\ h.rule \in RuleTable
  BY <1>5 DEF AsHits, Hit
<1>7. \A h \in InForce(f) : ShownBy(hits, supp, f, h)
  <2> SUFFICES ASSUME NEW h \in InForce(f) PROVE ShownBy(hits, supp, f, h)
    OBVIOUS
  <2>1. ASSUME h \in r.hits PROVE ShownBy(hits, supp, f, h)
    <3> DEFINE x == Hit(f.path, f.content, h)
    <3>1. x \in hits
      BY <2>1 DEF AsHits
    <3>2. x.path = f.path /\ x.rule = h.rule /\ x.line = h.line
      BY DEF Hit
    <3> HIDE DEF x, hits
    <3> QED
      BY <3>1, <3>2 DEF ShownBy
  <2>2. ASSUME h \in r.supp, <<h.line, h.rule>> \in f.content.marks PROVE ShownBy(hits, supp, f, h)
    BY <2>2 DEF ShownBy, AsHits
  <2> QED
    BY <1>5, <2>1, <2>2
<1>8. \A g, h : ShownBy(aud.hits, aud.supp, g, h) => ShownBy(hits, supp, g, h)
  BY DEF ShownBy
<1> HIDE DEF hits, supp, n
<1>9. /\ AudForm(aud') /\ aud'.at = "scan"
      /\ aud'.records = records /\ aud'.hits = hits /\ aud'.supp = supp
  BY <1>1, <1>2, Zenon DEF AudForm
<1>10. QuickOK(aud)'
  <2>1. records \in Seq(Files) /\ Len(records) <= Len(tree)
    BY <1>1, <1>3, <1>4
  <2>2. \A i \in 1 .. Len(records) : records[i].path = tree[i].path /\ (edits = 0 => records[i] = tree[i])
    <3> SUFFICES ASSUME NEW i \in 1 .. Len(records)
                 PROVE  records[i].path = tree[i].path /\ (edits = 0 => records[i] = tree[i])
      OBVIOUS
    <3>1. CASE i = n + 1
      BY <1>4, <3>1 DEF f
    <3>2. CASE i # n + 1
      <4>1. i \in 1 .. n /\ records[i] = aud.records[i]
        BY <1>3, <1>4, <3>2
      <4> QED
        BY <1>2, <4>1 DEF QuickOK, n
    <3> QED
      BY <3>1, <3>2
  <2>3. \A i \in 1 .. Len(records) : LastOf(records, records[i].path) # {}
    <3> SUFFICES ASSUME NEW i \in 1 .. Len(records) PROVE LastOf(records, records[i].path) # {}
      OBVIOUS
    <3>1. CASE i = n + 1
      BY <1>4, <3>1
    <3>2. CASE i # n + 1
      <4>1. i \in 1 .. n /\ records[i] = aud.records[i]
        BY <1>3, <1>4, <3>2
      <4>2. LastOf(aud.records, aud.records[i].path) # {}
        BY <1>2, <4>1 DEF QuickOK, n
      <4> QED
        BY <1>4, <4>1, <4>2
    <3> QED
      BY <3>1, <3>2
  <2>4. \A h \in hits : /\ LastOf(records, h.path) # {} /\ h.rule \in RuleTable
                        /\ FoundIn(records, h) \/ (h.rule = DEP_RULE /\ edits > 0)
    <3> SUFFICES ASSUME NEW h \in hits
                 PROVE  /\ LastOf(records, h.path) # {} /\ h.rule \in RuleTable
                        /\ FoundIn(records, h) \/ (h.rule = DEP_RULE /\ edits > 0)
      OBVIOUS
    <3>1. CASE h \in aud.hits
      BY <1>2, <1>4, <3>1 DEF QuickOK, HitOK
    <3>2. CASE h.path = f.path /\ h.of = f.content /\ h.rule \in RuleTable
      <4>1. FoundIn(records, h)
        BY <1>3, <1>4, <3>2 DEF FoundIn
      <4> QED
        BY <1>4, <3>2, <4>1
    <3> QED
      BY <1>6, <3>1, <3>2
  <2>5. \A k \in 1 .. Len(records) : \A h \in InForce(records[k]) : ShownBy(hits, supp, records[k], h)
    <3> SUFFICES ASSUME NEW k \in 1 .. Len(records), NEW h \in InForce(records[k])
                 PROVE  ShownBy(hits, supp, records[k], h)
      OBVIOUS
    <3>1. CASE k = n + 1
      BY <1>4, <1>7, <3>1
    <3>2. CASE k # n + 1
      <4>1. k \in 1 .. n /\ records[k] = aud.records[k]
        BY <1>3, <1>4, <3>2
      <4> QED
        BY <1>2, <1>8, <4>1 DEF QuickOK, n
    <3> QED
      BY <3>1, <3>2
  <2> QED
    BY <1>1, <1>9, <2>1, <2>2, <2>3, <2>4, <2>5 DEF QuickOK, HitOK
<1> QED
  BY <1>1, <1>2, <1>9, <1>10, StageKeeps

LEMMA AuditDepsKeeps == ASSUME AuditInv, AuditDeps PROVE AuditInv'
<1>1. /\ aud.at = "scan" /\ Len(aud.records) = Len(tree)
      /\ UNCHANGED <<tree, edits, report>>
  BY Zenon DEF AuditDeps
<1>2. QuickOK(aud) /\ tree \in Seq(Files) /\ edits \in Nat /\ AudForm(aud) /\ report = {}
  BY <1>1 DEF AuditInv
<1>3. CASE aud' = [aud EXCEPT !.at = "llm"] \/ aud' = [aud EXCEPT !.at = "llm", !.deps = "unreachable"]
  <2>1. /\ AudForm(aud') /\ aud'.at = "llm" /\ aud'.records = aud.records
        /\ aud'.hits = aud.hits /\ aud'.supp = aud.supp
    BY <1>2, <1>3, Zenon DEF AudForm
  <2>2. QuickOK(aud)'
    BY <1>1, <1>2, <2>1 DEF QuickOK, HitOK
  <2> QED
    BY <1>1, <1>2, <2>1, <2>2, StageKeeps
<1>4. ASSUME NEW i \in DOMAIN tree, tree[i].path = "package.json", NEW hs,
             \A h \in hs : h.rule = DEP_RULE,
             aud' = [aud EXCEPT !.at = "llm", !.deps = "live", !.hits = @ \cup AsHits("package.json", tree[i].content, hs)]
      PROVE  AuditInv'
  <2> DEFINE hits == aud.hits \cup AsHits("package.json", tree[i].content, hs)
  <2>1. aud' = [aud EXCEPT !.at = "llm", !.deps = "live", !.hits = hits]
    BY <1>4
  <2>2. \A h \in hits : \/ h \in aud.hits
                        \/ h.path = "package.json" /\ h.of = tree[i].content /\ h.rule = DEP_RULE
    BY <1>4 DEF AsHits, Hit
  <2>3. \A g, h : ShownBy(aud.hits, aud.supp, g, h) => ShownBy(hits, aud.supp, g, h)
    BY DEF ShownBy
  <2> HIDE DEF hits
  <2>4. /\ AudForm(aud') /\ aud'.at = "llm" /\ aud'.records = aud.records
        /\ aud'.hits = hits /\ aud'.supp = aud.supp
    BY <1>2, <2>1, Zenon DEF AudForm
  <2>5. i \in 1 .. Len(aud.records)
    BY <1>1, <1>2
  <2>6. /\ aud.records[i].path = "package.json" /\ LastOf(aud.records, "package.json") # {}
        /\ edits = 0 => aud.records[i].content = tree[i].content
    BY <1>2, <1>4, <2>5 DEF QuickOK
  <2>7. \A h \in hits : /\ LastOf(aud.records, h.path) # {} /\ h.rule \in RuleTable
                        /\ FoundIn(aud.records, h) \/ (h.rule = DEP_RULE /\ edits > 0)
    <3> SUFFICES ASSUME NEW h \in hits
                 PROVE  /\ LastOf(aud.records, h.path) # {} /\ h.rule \in RuleTable
                        /\ FoundIn(aud.records, h) \/ (h.rule = DEP_RULE /\ edits > 0)
      OBVIOUS
    <3>1. CASE h \in aud.hits
      BY <1>2, <3>1 DEF QuickOK, HitOK
    <3>2. CASE h.path = "package.json" /\ h.of = tree[i].content /\ h.rule = DEP_RULE
      <4>1. edits = 0 => FoundIn(aud.records, h)
        BY <2>5, <2>6, <3>2 DEF FoundIn
      <4>2. h.rule \in RuleTable
        BY <3>2 DEF RuleTable
      <4> QED
        BY <1>2, <2>6, <3>2, <4>1, <4>2
    <3> QED
      BY <2>2, <3>1, <3>2
  <2>8. QuickOK(aud)'
    BY <1>1, <1>2, <2>3, <2>4, <2>7 DEF QuickOK, HitOK
  <2> QED
    BY <1>1, <1>2, <2>4, <2>8, StageKeeps
<1>5. \A c : \A h \in (IF c \in DOMAIN DepHits THEN DepHits[c] ELSE {}) : h.rule = DEP_RULE
  BY AuditAssumption
<1> DEFINE HitsOf(c) == IF c \in DOMAIN DepHits THEN DepHits[c] ELSE {}
<1>6. \/ aud' = [aud EXCEPT !.at = "llm"]
      \/ aud' = [aud EXCEPT !.at = "llm", !.deps = "unreachable"]
      \/ \E i \in {k \in DOMAIN tree : tree[k].path = "package.json"} :
           aud' = [aud EXCEPT !.at = "llm", !.deps = "live",
                              !.hits = @ \cup AsHits("package.json", tree[i].content, HitsOf(tree[i].content))]
  BY Zenon DEF AuditDeps, AuditGoto
<1>7. ASSUME NEW i \in {k \in DOMAIN tree : tree[k].path = "package.json"},
             aud' = [aud EXCEPT !.at = "llm", !.deps = "live",
                                !.hits = @ \cup AsHits("package.json", tree[i].content, HitsOf(tree[i].content))]
      PROVE  AuditInv'
  <2> DEFINE hs == HitsOf(tree[i].content)
  <2>1. i \in DOMAIN tree /\ tree[i].path = "package.json" /\ \A h \in hs : h.rule = DEP_RULE
    BY <1>5
  <2> HIDE DEF hs
  <2>2. aud' = [aud EXCEPT !.at = "llm", !.deps = "live", !.hits = @ \cup AsHits("package.json", tree[i].content, hs)]
    BY <1>7, Zenon DEF hs
  <2> HIDE DEF HitsOf
  <2> QED
    BY <1>4, <2>1, <2>2, Zenon
<1> QED
  BY <1>3, <1>6, <1>7, Zenon

LEMMA AuditLlmKeeps == ASSUME AuditInv, AuditLlm PROVE AuditInv'
<1>1. PICK S : aud' = [aud EXCEPT !.at = "seal", !.llm = {p \in S : RecordOf(p) # {}}]
  BY Zenon DEF AuditLlm
<1>2. aud.at = "llm" /\ UNCHANGED <<tree, edits, report>>
  BY DEF AuditLlm
<1>3. QuickOK(aud) /\ AudForm(aud) /\ report = {}
  BY <1>2 DEF AuditInv
<1> DEFINE llm == {p \in S : RecordOf(p) # {}}
<1>4. \A p \in llm : LastOf(aud.records, p) # {}
  BY RecordIsLast
<1>5. aud' = [aud EXCEPT !.at = "seal", !.llm = llm]
  BY <1>1
<1> HIDE DEF llm
<1>6. /\ AudForm(aud') /\ aud'.at = "seal" /\ aud'.records = aud.records
      /\ aud'.hits = aud.hits /\ aud'.supp = aud.supp /\ aud'.llm = llm
  BY <1>3, <1>5, Zenon DEF AudForm
<1>7. QuickOK(aud)'
  BY <1>2, <1>3, <1>4, <1>6 DEF QuickOK, HitOK
<1> QED
  BY <1>2, <1>3, <1>6, <1>7, StageKeeps


(* What the quick tier seals verifies, and holds all that was found.       *)
LEMMA AuditSealKeeps == ASSUME AuditInv, AuditSeal PROVE AuditInv'
<1> DEFINE findings == {Finding(h, "deterministic") : h \in aud.hits}
           suggested == {Finding(Hit(p, 0, [rule |-> "llm", line |-> 1]), "llm-suggested") : p \in aud.llm}
           stats == ruleStats(findings)
           core == [files |-> aud.records, findings |-> findings, supp |-> aud.supp, deps |-> aud.deps,
                    llm |-> suggested, stats |-> stats]
           r == [core |-> core, seal |-> core]
<1>1. /\ aud.at = "seal" /\ report' = {r}
      /\ UNCHANGED <<tree, edits>>
      /\ aud' = [aud EXCEPT !.at = "sealed"]
  BY Zenon DEF AuditSeal, AuditGoto
<1>2. QuickOK(aud) /\ AudForm(aud) /\ edits \in Nat /\ tree \in Seq(Files)
  BY <1>1 DEF AuditInv
<1>3. AudForm(aud') /\ aud'.at = "sealed"
  BY <1>1, <1>2 DEF AudForm
<1>4. DOMAIN aud.records = 1 .. Len(aud.records)
  <2>1. aud.records \in Seq(Files)
    BY <1>2 DEF QuickOK
  <2> HIDE DEF Files
  <2> QED
    BY <2>1
<1>5. \A f \in findings : \E h \in aud.hits :
        /\ f.path = h.path /\ f.rule = h.rule /\ f.line = h.line /\ f.of = h.of
        /\ f.origin = "deterministic" /\ f.cites = LastOf(aud.records, h.path)
  <2> SUFFICES ASSUME NEW h \in aud.hits, NEW f, f = Finding(h, "deterministic")
               PROVE  /\ f.path = h.path /\ f.rule = h.rule /\ f.line = h.line /\ f.of = h.of
                      /\ f.origin = "deterministic" /\ f.cites = LastOf(aud.records, h.path)
    OBVIOUS
  <2> QED
    BY RecordIsLast DEF Finding, Cites
<1>6. \A h \in aud.hits : \E f \in findings : f.path = h.path /\ f.rule = h.rule /\ f.line = h.line
  <2> SUFFICES ASSUME NEW h \in aud.hits
               PROVE  \E f \in findings : f.path = h.path /\ f.rule = h.rule /\ f.line = h.line
    OBVIOUS
  <2> DEFINE x == Finding(h, "deterministic")
  <2>1. x \in findings
    OBVIOUS
  <2>2. x.path = h.path /\ x.rule = h.rule /\ x.line = h.line
    BY DEF Finding
  <2> HIDE DEF x, findings
  <2> QED
    BY <2>1, <2>2
<1>7. \A f \in suggested : \E p \in aud.llm : f.origin = "llm-suggested" /\ f.cites = LastOf(aud.records, p)
  BY RecordIsLast DEF Finding, Cites, Hit
<1>8. DOMAIN stats = RuleTable /\ \A x \in RuleTable : stats[x] = Cardinality({f \in findings : f.rule = x})
  BY DEF ruleStats
<1> HIDE DEF findings, suggested, stats
<1>9. /\ core.files = aud.records /\ core.findings = findings /\ core.supp = aud.supp
      /\ core.llm = suggested /\ core.stats = stats /\ "files" \in DOMAIN core
  OBVIOUS
<1>10. r.core = core /\ r.seal = core
  OBVIOUS
<1> HIDE DEF core, r
<1>11. \A path : LastOf(aud.records, path) \subseteq DOMAIN aud.records
  BY DEF LastOf
<1>12. checkFindings(r, r.core.findings, "deterministic")
  <2>1. \A h \in aud.hits : LastOf(aud.records, h.path) # {}
    BY <1>2 DEF QuickOK, HitOK
  <2> QED
    BY <1>5, <1>9, <1>10, <1>11, <2>1 DEF checkFindings
<1>13. checkFindings(r, r.core.llm, "llm-suggested")
  <2>1. \A p \in aud.llm : LastOf(aud.records, p) # {}
    BY <1>1, <1>2 DEF QuickOK
  <2> QED
    BY <1>7, <1>9, <1>10, <1>11, <2>1 DEF checkFindings
<1>14. \A f \in findings : f.rule \in RuleTable
  BY <1>2, <1>5 DEF QuickOK, HitOK
<1>15. verifyReport(r)
  BY <1>8, <1>9, <1>10, <1>12, <1>13, <1>14 DEF verifyReport
<1>16. \A f \in findings : \A k \in f.cites :
         \/ aud.records[k].content = f.of
         \/ \E i, j \in DOMAIN aud.records : i # j /\ aud.records[i].path = aud.records[j].path
         \/ f.rule = DEP_RULE /\ edits > 0
  <2> SUFFICES ASSUME NEW f \in findings, NEW k \in f.cites, ~(f.rule = DEP_RULE /\ edits > 0)
               PROVE  \/ aud.records[k].content = f.of
                      \/ \E i, j \in DOMAIN aud.records : i # j /\ aud.records[i].path = aud.records[j].path
    OBVIOUS
  <2>1. PICK h \in aud.hits : /\ f.rule = h.rule /\ f.of = h.of
                              /\ f.cites = LastOf(aud.records, h.path)
    BY <1>5
  <2>2. FoundIn(aud.records, h)
    BY <1>2, <2>1 DEF QuickOK, HitOK
  <2>3. PICK i \in 1 .. Len(aud.records) : aud.records[i].path = h.path /\ aud.records[i].content = h.of
    BY <2>2 DEF FoundIn
  <2>4. k \in DOMAIN aud.records /\ aud.records[k].path = h.path
    BY <2>1 DEF LastOf
  <2>5. CASE i = k
    BY <2>1, <2>3, <2>5
  <2>6. CASE i # k
    BY <1>4, <2>3, <2>4, <2>6
  <2> QED
    BY <2>5, <2>6
<1>17. \A k \in DOMAIN aud.records : \A h \in InForce(aud.records[k]) :
          ShownBy(findings, aud.supp, aud.records[k], h)
  <2> SUFFICES ASSUME NEW k \in DOMAIN aud.records, NEW h \in InForce(aud.records[k])
               PROVE  ShownBy(findings, aud.supp, aud.records[k], h)
    OBVIOUS
  <2>1. ShownBy(aud.hits, aud.supp, aud.records[k], h)
    BY <1>2, <1>4 DEF QuickOK
  <2> QED
    BY <1>6, <2>1 DEF ShownBy
<1>18. AuditsVerify'
  <2>1. report' = {r} /\ Quick(r) /\ edits' = edits
    BY <1>1, <1>9, <1>10 DEF Quick
  <2>2. EveryAuditVerifies'
    BY <1>15, <2>1 DEF EveryAuditVerifies
  <2>3. FindingCitesItsContent'
    BY <1>9, <1>10, <1>16, <2>1 DEF FindingCitesItsContent
  <2>4. NothingLost'
    <3> DEFINE Whole(s) ==
           \A k \in DOMAIN s.core.files : \A h \in InForce(s.core.files[k]) :
              ShownBy(s.core.findings, s.core.supp, s.core.files[k], h)
    <3>1. (\A s \in report' : Quick(s) => Whole(s)) => NothingLost'
      BY Zenon DEF NothingLost, InForce, ShownBy
    <3>2. Whole(r)
      BY <1>9, <1>10, <1>17
    <3> HIDE DEF Whole
    <3> QED
      BY <2>1, <3>1, <3>2
  <2>5. DeepEditRefused' /\ VerdictIsMechanical'
    BY <2>1 DEF DeepEditRefused, VerdictIsMechanical
  <2> QED
    BY <2>2, <2>3, <2>4, <2>5 DEF AuditsVerify
<1> QED
  BY <1>1, <1>2, <1>3, <1>18, Zenon DEF AuditInv, DeepStages


-----------------------------------------------------------------------------
(* The deep tier: the floor of the verdict.                                *)

Mechanical(found) == {f \in found : f.origin # "llm"}
LEMMA FloorIs ==
  ASSUME NEW found, NEW tools, \A f \in found : FindingOK(f, tools)
  PROVE  /\ mechanicalFloor(found) \in {0, 1, 2}
         /\ mechanicalFloor(found) = 0 <=> \A f \in Mechanical(found) : f.sev = "info"
         /\ mechanicalFloor(found) = 2 <=> \E f \in Mechanical(found) : f.sev \in {"critical", "high"}
<1> DEFINE W == {weight(f.sev) : f \in Mechanical(found)}
           floor == mechanicalFloor(found)
<1>1. floor = IF W = {} THEN 0 ELSE CHOOSE w \in W : \A x \in W : x <= w
  BY DEF mechanicalFloor, Mechanical
<1>2. \A f \in Mechanical(found) : f.sev \in AuditSeverities
  BY DEF Mechanical, FindingOK
<1>3. \A f \in Mechanical(found) :
        /\ weight(f.sev) \in {0, 1, 2}
        /\ weight(f.sev) = 0 <=> f.sev = "info"
        /\ weight(f.sev) = 2 <=> f.sev \in {"critical", "high"}
  BY <1>2 DEF AuditSeverities, weight
<1>4. W \subseteq {0, 1, 2}
  BY <1>3
<1>5. /\ \A w \in W : \E f \in Mechanical(found) : w = weight(f.sev)
      /\ \A f \in Mechanical(found) : weight(f.sev) \in W
  OBVIOUS
<1> HIDE DEF W, floor
<1>6. ASSUME W # {} PROVE floor \in W /\ \A x \in W : x <= floor
  <2>1. \E w \in W : \A x \in W : x <= w
    <3>1. CASE 2 \in W
      BY <1>4, <3>1
    <3>2. CASE 2 \notin W /\ 1 \in W
      BY <1>4, <3>2
    <3>3. CASE 2 \notin W /\ 1 \notin W
      <4>1. PICK z \in W : TRUE
        BY <1>6
      <4>2. \A x \in W : x = 0
        BY <1>4, <3>3
      <4> QED
        BY <4>1, <4>2
    <3> QED
      BY <3>1, <3>2, <3>3
  <2> QED
    BY <1>1, <1>6, <2>1
<1>7. CASE W = {}
  BY <1>1, <1>5, <1>7 DEF floor
<1>8. CASE W # {}
  <2>1. floor \in {0, 1, 2}
    BY <1>4, <1>6, <1>8
  <2>2. floor = 0 <=> \A f \in Mechanical(found) : f.sev = "info"
    <3>1. ASSUME floor = 0, NEW x \in W PROVE x = 0
      <4>1. x <= 0
        BY <1>6, <1>8, <3>1
      <4> QED
        BY <1>4, <4>1
    <3> QED
      BY <1>3, <1>5, <1>6, <1>8, <3>1
  <2>3. floor = 2 <=> \E f \in Mechanical(found) : f.sev \in {"critical", "high"}
    <3>1. ASSUME 2 \in W PROVE floor = 2
      <4>1. 2 <= floor
        BY <1>6, <1>8, <3>1
      <4> QED
        BY <2>1, <4>1
    <3> QED
      BY <1>3, <1>5, <1>6, <1>8, <3>1
  <2> QED
    BY <2>1, <2>2, <2>3 DEF floor
<1> QED
  BY <1>7, <1>8

(* Every tool runs under a name of its own, so that a run takes nothing    *)
(* from the others.                                                        *)
LEMMA ToolKeeps ==
  ASSUME NEW tools, NEW found, DeepOK(tools, found), NEW name, name \notin NamesOf(tools),
         NEW sevs, sevs \subseteq AuditSeverities, NEW fs,
         fs = {makeFinding(name, OriginOf(name), s) : s \in sevs}
  PROVE  DeepOK(tools \cup {ToolRun(name, fs)}, found \cup fs)
<1> DEFINE run == ToolRun(name, fs)
           more == tools \cup {run}
           all == found \cup fs
<1>1. run.name = name /\ run.bound = toolFindingsHash(fs) /\ run.count = Cardinality(fs)
  BY DEF ToolRun
<1>2. \A f \in fs : f.tool = name /\ FindingOK(f, more)
  <2> SUFFICES ASSUME NEW s \in sevs, NEW f, f = makeFinding(name, OriginOf(name), s)
               PROVE  f.tool = name /\ FindingOK(f, more)
    OBVIOUS
  <2>1. /\ f = [tool |-> f.tool, origin |-> f.origin, sev |-> f.sev, hash |-> f.hash]
        /\ f.hash = contentHash(f) /\ f.tool = name /\ f.origin = OriginOf(name) /\ f.sev = s
    BY DEF makeFinding, contentHash
  <2>2. name \in NamesOf(more)
    BY <1>1 DEF NamesOf
  <2> QED
    BY <2>1, <2>2 DEF FindingOK
<1>3. \A f \in found : f.tool # name /\ FindingOK(f, more)
  <2> SUFFICES ASSUME NEW f \in found PROVE f.tool # name /\ FindingOK(f, more)
    OBVIOUS
  <2>1. FindingOK(f, tools)
    BY DEF DeepOK
  <2>2. f.tool \in NamesOf(tools) /\ f.tool \in NamesOf(more)
    BY <2>1 DEF FindingOK, NamesOf
  <2> QED
    BY <2>1, <2>2 DEF FindingOK
<1>4. OwnOf(all, name) = fs
  BY <1>2, <1>3 DEF OwnOf
<1>5. \A other : other # name => OwnOf(all, other) = OwnOf(found, other)
  BY <1>2 DEF OwnOf
<1>6. \A t \in tools : t.name # name
  BY DEF NamesOf
<1> HIDE DEF run, all
<1>7. \A t \in more : t.bound = toolFindingsHash(OwnOf(all, t.name)) /\ t.count = Cardinality(OwnOf(all, t.name))
  <2> SUFFICES ASSUME NEW t \in more
               PROVE  t.bound = toolFindingsHash(OwnOf(all, t.name)) /\ t.count = Cardinality(OwnOf(all, t.name))
    OBVIOUS
  <2>1. CASE t \in tools
    <3>1. OwnOf(all, t.name) = OwnOf(found, t.name)
      BY <1>5, <1>6, <2>1
    <3> QED
      BY <2>1, <3>1 DEF DeepOK
  <2>2. CASE t = run
    BY <1>1, <1>4, <2>2
  <2> QED
    BY <2>1, <2>2
<1>8. \A t, u \in more : t.name = u.name => t = u
  BY <1>1, <1>6 DEF DeepOK
<1>9. \A f \in all : FindingOK(f, more)
  BY <1>2, <1>3 DEF all
<1> HIDE DEF more
<1>10. DeepOK(more, all)
  BY <1>7, <1>8, <1>9 DEF DeepOK
<1> QED
  BY <1>10 DEF more, all, run

LEMMA WithRunKeeps ==
  ASSUME AudForm(aud), DeepOK(aud.tools, aud.found), NEW name, name \notin RanNames, NEW origin, origin = OriginOf(name),
         NEW sevs \in ToolReports \cup {{}}, NEW at, aud' = [WithRun(name, origin, sevs) EXCEPT !.at = at]
  PROVE  /\ AudForm(aud') /\ aud'.at = at /\ DeepOK(aud.tools, aud.found)'
         /\ RanNames' = RanNames \cup {name}
<1> DEFINE fs == {makeFinding(name, OriginOf(name), s) : s \in sevs}
           tools == aud.tools \cup {ToolRun(name, fs)}
           found == aud.found \cup fs
<1>1. aud' = [[aud EXCEPT !.tools = tools, !.found = found] EXCEPT !.at = at]
  BY Zenon DEF WithRun
<1>2. sevs \subseteq AuditSeverities
  BY AuditAssumption
<1>3. name \notin NamesOf(aud.tools)
  BY DEF RanNames, NamesOf
<1>4. DeepOK(tools, found)
  BY <1>2, <1>3, ToolKeeps
<1>5. {t.name : t \in tools} = RanNames \cup {name}
  <2> DEFINE run == ToolRun(name, fs)
  <2>1. run.name = name
    BY DEF ToolRun
  <2> HIDE DEF run
  <2>2. {t.name : t \in aud.tools \cup {run}} = {t.name : t \in aud.tools} \cup {run.name}
    OBVIOUS
  <2> QED
    BY <2>1, <2>2 DEF RanNames, run
<1> HIDE DEF tools, found
<1>6. AudForm(aud') /\ aud'.at = at /\ aud'.tools = tools /\ aud'.found = found
  BY <1>1, Zenon DEF AudForm
<1> QED
  BY <1>4, <1>5, <1>6 DEF RanNames


LEMMA DeepStartKeeps == ASSUME AuditInv, DeepStart PROVE AuditInv'
<1>1. /\ aud.at = "fetch" /\ UNCHANGED <<tree, edits, report>>
      /\ \E at \in {"unfetched", "tools", "nosandbox"} : aud' = [aud EXCEPT !.at = at]
  BY DEF DeepStart, AuditGoto
<1>2. AudForm(aud) /\ report = {} /\ aud.tools = {} /\ aud.found = {}
  BY <1>1 DEF AuditInv
<1>3. /\ AudForm(aud') /\ aud'.at \in {"unfetched", "tools", "nosandbox"}
      /\ aud'.tools = {} /\ aud'.found = {}
  BY <1>1, <1>2 DEF AudForm
<1>4. DeepOK(aud.tools, aud.found)'
  BY <1>3 DEF DeepOK
<1>5. RanNames' \subseteq PlanTools /\ ~(PlanTools \subseteq RanNames')
  BY <1>3 DEF RanNames, PlanTools
<1> QED
  BY <1>1, <1>2, <1>3, <1>4, <1>5, StageKeeps

LEMMA DeepThrowKeeps ==
  ASSUME AuditInv, aud.at \in {"tools", "advisory"}, DeepThrow, UNCHANGED <<tree, edits>>
  PROVE  AuditInv'
<1>1. AudForm(aud) /\ report = {} /\ report' = report
  BY DEF AuditInv, DeepThrow
<1>2. AudForm(aud') /\ aud'.at = "thrown"
  BY <1>1, Zenon DEF AudForm, DeepThrow
<1> QED
  BY <1>1, <1>2, StageKeeps

LEMMA DeepToolKeeps == ASSUME AuditInv, DeepTool PROVE AuditInv'
<1>1. aud.at = "tools" /\ UNCHANGED <<tree, edits>>
  BY Zenon DEF DeepTool
<1>2. AudForm(aud) /\ report = {} /\ DeepOK(aud.tools, aud.found)
  BY <1>1 DEF AuditInv, DeepStages
<1>3. RanNames \subseteq PlanTools /\ ~(PlanTools \subseteq RanNames)
  BY <1>1 DEF AuditInv
<1>4. CASE DeepThrow
  BY <1>1, <1>4, DeepThrowKeeps
<1> DEFINE Next_(t) == t = "semgrep" \/ "semgrep" \in RanNames
           tool == CHOOSE t \in PlanTools \ RanNames : Next_(t)
           at == IF PlanTools \subseteq RanNames \cup {tool} THEN "advisory" ELSE "tools"
<1>5. tool \in PlanTools \ RanNames
  <2>1. "semgrep" \in PlanTools
    BY DEF PlanTools
  <2>2. \E t \in PlanTools \ RanNames : Next_(t)
    BY <1>3, <2>1
  <2> HIDE DEF Next_
  <2> QED
    BY <2>2
<1>6. tool \notin RanNames /\ "tool" = OriginOf(tool)
  BY <1>5 DEF PlanTools, OriginOf
<1>7. CASE \E sevs \in ToolReports \cup {{}} : aud' = [WithRun(tool, "tool", sevs) EXCEPT !.at = at] /\ UNCHANGED report
  <2>1. PICK sevs \in ToolReports \cup {{}} : aud' = [WithRun(tool, "tool", sevs) EXCEPT !.at = at] /\ UNCHANGED report
    BY <1>7
  <2>2. (at = "advisory" /\ PlanTools \subseteq RanNames \cup {tool}) \/ (at = "tools" /\ ~(PlanTools \subseteq RanNames \cup {tool}))
    OBVIOUS
  <2> HIDE DEF at, tool
  <2>3. /\ AudForm(aud') /\ aud'.at = at /\ DeepOK(aud.tools, aud.found)'
        /\ RanNames' = RanNames \cup {tool}
    BY <1>2, <1>6, <2>1, WithRunKeeps
  <2>4. RanNames' \subseteq PlanTools
    BY <1>3, <1>5, <2>3
  <2> QED
    BY <1>1, <1>2, <2>1, <2>2, <2>3, <2>4, StageKeeps
<1> QED
  BY <1>4, <1>7, Zenon DEF DeepTool

LEMMA DeepAdvisoryKeeps == ASSUME AuditInv, DeepAdvisory PROVE AuditInv'
<1>1. aud.at = "advisory" /\ UNCHANGED <<tree, edits>>
  BY Zenon DEF DeepAdvisory
<1>2. AudForm(aud) /\ report = {} /\ DeepOK(aud.tools, aud.found) /\ RanNames = PlanTools
  BY <1>1 DEF AuditInv, DeepStages
<1>3. "semgrep" \in RanNames /\ "dep-advisory" \notin RanNames /\ "llm-review" \notin RanNames
  BY <1>2 DEF PlanTools
<1>4. CASE DeepThrow
  BY <1>1, <1>4, DeepThrowKeeps
<1>5. CASE aud' = [aud EXCEPT !.at = "review"] /\ UNCHANGED report
  <2>1. /\ AudForm(aud') /\ aud'.at = "review" /\ aud'.tools = aud.tools /\ aud'.found = aud.found
    BY <1>2, <1>5 DEF AudForm
  <2>2. RanNames' = RanNames /\ DeepOK(aud.tools, aud.found)'
    BY <1>2, <2>1 DEF RanNames
  <2> QED
    BY <1>1, <1>2, <1>3, <1>5, <2>1, <2>2, StageKeeps
<1>6. CASE \E sevs \in ToolReports \cup {{}} : aud' = [WithRun("dep-advisory", "advisory", sevs) EXCEPT !.at = "review"] /\ UNCHANGED report
  <2>1. PICK sevs \in ToolReports \cup {{}} : aud' = [WithRun("dep-advisory", "advisory", sevs) EXCEPT !.at = "review"]
    BY <1>6
  <2>2. "advisory" = OriginOf("dep-advisory")
    BY DEF OriginOf
  <2>3. /\ AudForm(aud') /\ aud'.at = "review" /\ DeepOK(aud.tools, aud.found)'
        /\ RanNames' = RanNames \cup {"dep-advisory"}
    BY <1>2, <1>3, <2>1, <2>2, WithRunKeeps
  <2> QED
    BY <1>1, <1>2, <1>3, <1>6, <2>3, StageKeeps
<1> QED
  BY <1>4, <1>5, <1>6, Zenon DEF DeepAdvisory, AuditGoto

LEMMA DeepReviewKeeps == ASSUME AuditInv, DeepReview PROVE AuditInv'
<1>1. aud.at = "review" /\ UNCHANGED <<tree, edits, report>>
  BY Zenon DEF DeepReview
<1>2. /\ AudForm(aud) /\ report = {} /\ DeepOK(aud.tools, aud.found)
      /\ "semgrep" \in RanNames /\ "llm-review" \notin RanNames
  BY <1>1 DEF AuditInv, DeepStages
<1>3. PICK sevs \in ToolReports \cup {{}} : aud' = [WithRun("llm-review", "llm", sevs) EXCEPT !.at = "seal-deep"]
  BY Zenon DEF DeepReview
<1>4. "llm" = OriginOf("llm-review")
  BY DEF OriginOf
<1>5. /\ AudForm(aud') /\ aud'.at = "seal-deep" /\ DeepOK(aud.tools, aud.found)'
      /\ RanNames' = RanNames \cup {"llm-review"}
  BY <1>2, <1>3, <1>4, WithRunKeeps
<1> QED
  BY <1>1, <1>2, <1>5, StageKeeps

(* Two findings of a tool with the same hash are the same finding.         *)
LEMMA HashNames ==
  ASSUME NEW tools, NEW f, NEW g, FindingOK(f, tools), FindingOK(g, tools), f.hash = g.hash
  PROVE  f = g
<1>1. f.tool = g.tool /\ f.sev = g.sev
  BY DEF FindingOK, contentHash
<1>2. f.origin = g.origin
  BY <1>1 DEF FindingOK
<1> QED
  BY <1>1, <1>2 DEF FindingOK

LEMMA EditsAreRefused ==
  ASSUME NEW r, NEW c, r.core = c, DeepOK(c.tools, c.found),
         c = [available |-> c.available, tools |-> c.tools, found |-> c.found, verdict |-> c.verdict],
         c.verdict # "indeterminate" \/ (c.found = {} /\ c.tools = {}),
         NEW s \in DeepEdits(r)
  PROVE  ~verifyDeepAudit(s)
<1> DEFINE Refused(e) == ~verifyDeepAudit([core |-> e, seal |-> e])
           Own(e, t) == {f \in e.found : f.tool = t.name}
<1>1. ASSUME NEW e, \E f \in e.found : f.hash # contentHash(f) \/ f.tool \notin {t.name : t \in e.tools}
      PROVE  Refused(e)
  BY <1>1 DEF verifyDeepAudit
<1>2. ASSUME NEW e, NEW t \in e.tools, t.bound # toolFindingsHash(Own(e, t)) PROVE Refused(e)
  BY <1>2 DEF verifyDeepAudit
<1>3. ASSUME NEW e, e.verdict # "indeterminate", ~NotCleaner(e.verdict, e.found) PROVE Refused(e)
  BY <1>3 DEF verifyDeepAudit
<1> HIDE DEF Refused
<1>4. \A f \in c.found : FindingOK(f, c.tools)
  BY DEF DeepOK
<1>5. ASSUME NEW i \in 1 .. mechanicalFloor(c.found) PROVE Refused([c EXCEPT !.verdict = VERDICTS[i]])
  <2> DEFINE floor == mechanicalFloor(c.found)
             e == [c EXCEPT !.verdict = VERDICTS[i]]
  <2>1. floor \in {0, 1, 2}
    BY <1>4, FloorIs
  <2> HIDE DEF floor
  <2>2. i \in 1 .. floor
    BY DEF floor
  <2>3. i \in {1, 2} /\ i <= floor
    BY <2>1, <2>2
  <2>4. e.verdict = VERDICTS[i] /\ e.found = c.found
    OBVIOUS
  <2>5. \A j \in 1 .. 3 : VERDICTS[j] = VERDICTS[i] => j = i
    BY <2>3 DEF VERDICTS
  <2>6. DOMAIN VERDICTS = 1 .. 3
    BY DEF VERDICTS
  <2>7. VERDICTS[i] # "indeterminate"
    BY <2>3 DEF VERDICTS
  <2>8. ~(\E j \in DOMAIN VERDICTS : VERDICTS[j] = VERDICTS[i] /\ j - 1 >= floor)
    BY <2>1, <2>3, <2>5, <2>6
  <2> HIDE DEF e
  <2>9. ~NotCleaner(e.verdict, e.found)
    BY <2>4, <2>8 DEF NotCleaner, floor
  <2> QED
    BY <1>3, <2>4, <2>7, <2>9 DEF e
<1>6. ASSUME NEW f \in c.found PROVE Refused([c EXCEPT !.found = @ \ {f}])
  <2> DEFINE e == [c EXCEPT !.found = @ \ {f}]
  <2>1. e.found = c.found \ {f} /\ e.tools = c.tools
    OBVIOUS
  <2>2. f.tool \in NamesOf(c.tools)
    BY <1>4 DEF FindingOK
  <2>3. PICK t \in c.tools : t.name = f.tool
    BY <2>2 DEF NamesOf
  <2>4. f.hash \in t.bound
    <3>1. t.bound = toolFindingsHash(OwnOf(c.found, t.name))
      BY DEF DeepOK
    <3> QED
      BY <2>3, <3>1 DEF toolFindingsHash, OwnOf
  <2> HIDE DEF e
  <2>5. f.hash \notin toolFindingsHash(Own(e, t))
    <3> SUFFICES ASSUME NEW g \in c.found, g # f, g.hash = f.hash PROVE FALSE
      BY <2>1 DEF toolFindingsHash
    <3> QED
      BY <1>4, HashNames
  <2>6. t.bound # toolFindingsHash(Own(e, t))
    BY <2>4, <2>5
  <2> HIDE DEF Own
  <2> QED
    BY <1>2, <2>1, <2>6 DEF e
<1>7. ASSUME NEW f \in c.found, f.sev # "info"
      PROVE  Refused([c EXCEPT !.found = (@ \ {f}) \cup {[f EXCEPT !.sev = "info"]}])
  <2> DEFINE g == [f EXCEPT !.sev = "info"]
             e == [c EXCEPT !.found = (@ \ {f}) \cup {g}]
  <2>1. g \in e.found
    OBVIOUS
  <2>2. f = [tool |-> f.tool, origin |-> f.origin, sev |-> f.sev, hash |-> f.hash] /\ f.hash = [tool |-> f.tool, sev |-> f.sev]
    BY <1>4 DEF FindingOK, contentHash
  <2>3. g.hash = f.hash /\ g.sev = "info" /\ g.tool = f.tool
    BY <2>2
  <2> HIDE DEF g
  <2>4. g.hash # contentHash(g)
    BY <1>7, <2>2, <2>3 DEF contentHash
  <2> HIDE DEF e
  <2>5. Refused(e)
    BY <1>1, <2>1, <2>4
  <2> QED
    BY <2>5 DEF e, g
<1>8. ASSUME NEW t \in c.tools, t.count > 0 PROVE Refused([c EXCEPT !.tools = @ \ {t}])
  <2> DEFINE e == [c EXCEPT !.tools = @ \ {t}]
  <2>1. e.found = c.found /\ e.tools = c.tools \ {t}
    OBVIOUS
  <2>2. OwnOf(c.found, t.name) # {}
    <3>1. t.count = Cardinality(OwnOf(c.found, t.name))
      BY DEF DeepOK
    <3> QED
      BY <1>8, <3>1, FS_EmptySet
  <2>3. PICK f \in c.found : f.tool = t.name
    BY <2>2 DEF OwnOf
  <2>4. f.tool \notin {u.name : u \in c.tools \ {t}}
    BY <2>3 DEF DeepOK
  <2> HIDE DEF e
  <2>5. Refused(e)
    BY <1>1, <2>1, <2>3, <2>4
  <2> QED
    BY <2>5 DEF e
<1>9. PICK e : /\ s = [core |-> e, seal |-> e]
               /\ \/ \E v \in {VERDICTS[i] : i \in 1 .. mechanicalFloor(c.found)} : e = [c EXCEPT !.verdict = v]
                  \/ \E f \in c.found : e = [c EXCEPT !.found = @ \ {f}]
                  \/ \E f \in {g \in c.found : g.sev # "info"} : e = [c EXCEPT !.found = (@ \ {f}) \cup {[f EXCEPT !.sev = "info"]}]
                  \/ \E t \in {u \in c.tools : u.count > 0} : e = [c EXCEPT !.tools = @ \ {t}]
  <2> DEFINE Edited(x) ==
         {[x EXCEPT !.verdict = v] : v \in {VERDICTS[i] : i \in 1 .. mechanicalFloor(x.found)}}
         \cup {[x EXCEPT !.found = @ \ {f}] : f \in x.found}
         \cup {[x EXCEPT !.found = (@ \ {f}) \cup {[f EXCEPT !.sev = "info"]}] : f \in {g \in x.found : g.sev # "info"}}
         \cup {[x EXCEPT !.tools = @ \ {t}] : t \in {u \in x.tools : u.count > 0}}
  <2>1. DeepEdits(r) = {[core |-> e, seal |-> e] : e \in Edited(r.core)}
    BY Zenon DEF DeepEdits
  <2> HIDE DEF Edited
  <2>2. PICK e \in Edited(c) : s = [core |-> e, seal |-> e]
    BY <2>1
  <2> USE DEF Edited
  <2> QED
    BY <2>2, Zenon
<1>10. Refused(e)
  BY <1>5, <1>6, <1>7, <1>8, <1>9
<1> QED
  BY <1>9, <1>10 DEF Refused


(* What the deep tier seals verifies, and its verdict is mechanical.       *)
LEMMA DeepSealKeeps == ASSUME AuditInv, DeepSeal PROVE AuditInv'
<1> DEFINE available == aud.at = "seal-deep"
           tools == aud.tools
           found == aud.found
           out == combineDeepVerdict(available, found)
           core == [available |-> available, tools |-> tools, found |-> found, verdict |-> out]
           r == [core |-> core, seal |-> core]
           floor == mechanicalFloor(found)
<1>1. /\ aud.at \in {"seal-deep", "nosandbox"} /\ report' = {r}
      /\ UNCHANGED <<tree, edits>>
      /\ aud' = [aud EXCEPT !.at = "done", !.cleaned = TRUE]
  BY Zenon DEF DeepSeal
<1>2. /\ AudForm(aud) /\ edits \in Nat /\ tree \in Seq(Files)
      /\ DeepOK(tools, found)
      /\ available => "semgrep" \in NamesOf(tools)
      /\ ~available => tools = {} /\ found = {}
  BY <1>1 DEF AuditInv, DeepStages, DeepOK, RanNames, NamesOf
<1>3. AudForm(aud') /\ aud'.at = "done"
  BY <1>1, <1>2, Zenon DEF AudForm
<1>4. \A f \in found : FindingOK(f, tools)
  BY <1>2 DEF DeepOK
<1> HIDE DEF tools, found
<1>5. /\ floor \in {0, 1, 2}
      /\ floor = 0 <=> \A f \in Mechanical(found) : f.sev = "info"
      /\ floor = 2 <=> \E f \in Mechanical(found) : f.sev \in {"critical", "high"}
  BY <1>4, FloorIs
<1>6. /\ available => out = VERDICTS[floor + 1] /\ out # "indeterminate"
      /\ ~available => out = "indeterminate"
      /\ out = "clean" <=> (available /\ floor = 0)
      /\ out = "critical-issues" <=> (available /\ floor = 2)
  BY <1>5 DEF combineDeepVerdict, VERDICTS
<1> HIDE DEF available, out, floor
<1>7. /\ core = [available |-> core.available, tools |-> core.tools, found |-> core.found, verdict |-> core.verdict]
      /\ core.tools = tools /\ core.found = found /\ core.verdict = out /\ "files" \notin DOMAIN core
      /\ core.available = available
  OBVIOUS
<1>8. r.core = core /\ r.seal = core
  OBVIOUS
<1> HIDE DEF core, r
<1>9. verifyDeepAudit(r)
  <2>1. \A f \in found : f.hash = contentHash(f) /\ f.tool \in {t.name : t \in tools}
    BY <1>4 DEF FindingOK, NamesOf
  <2>2. \A t \in tools : /\ t.bound = toolFindingsHash({f \in found : f.tool = t.name})
                         /\ t.count = Cardinality({f \in found : f.tool = t.name})
    BY <1>2 DEF DeepOK, OwnOf
  <2>3. CASE available
    <3>1. NotCleaner(out, found)
      <4> DEFINE i == floor + 1
      <4>1. i \in DOMAIN VERDICTS /\ i - 1 >= floor
        BY <1>5 DEF VERDICTS
      <4>2. VERDICTS[i] = out
        BY <1>6, <2>3, Zenon
      <4> HIDE DEF i
      <4> QED
        BY <4>1, <4>2, Zenon DEF NotCleaner, floor
    <3>2. tools # {} /\ out # "indeterminate"
      BY <1>2, <1>6, <2>3 DEF NamesOf
    <3> QED
      BY <1>7, <1>8, <2>1, <2>2, <3>1, <3>2 DEF verifyDeepAudit
  <2>4. CASE ~available
    BY <1>2, <1>6, <1>7, <1>8, <2>1, <2>2, <2>4 DEF verifyDeepAudit
  <2> QED
    BY <2>3, <2>4
<1>10. \A s \in DeepEdits(r) : ~verifyDeepAudit(s)
  <2>1. out # "indeterminate" \/ (found = {} /\ tools = {})
    BY <1>2, <1>6
  <2> QED
    BY <1>2, <1>7, <1>8, <2>1, EditsAreRefused
<1>11. {f \in found : f.origin \in {"tool", "advisory"}} = Mechanical(found)
  BY <1>4 DEF Mechanical, FindingOK, OriginOf
<1>12. (out = "indeterminate") <=> ~(\E t \in tools : t.name = "semgrep")
  BY <1>2, <1>6 DEF NamesOf
<1>13. AuditsVerify'
  <2>1. report' = {r} /\ ~Quick(r)
    BY <1>1, <1>7, <1>8 DEF Quick
  <2>2. EveryAuditVerifies'
    BY <1>9, <2>1 DEF EveryAuditVerifies
  <2>3. DeepEditRefused'
    BY <1>10, <2>1 DEF DeepEditRefused
  <2>4. VerdictIsMechanical'
    <3> DEFINE Mech(s) == {f \in s.core.found : f.origin \in {"tool", "advisory"}}
               Follows(s) ==
                 /\ s.core.verdict = "indeterminate" <=> ~(\E t \in s.core.tools : t.name = "semgrep")
                 /\ s.core.verdict = "clean" <=> s.core.available /\ \A f \in Mech(s) : f.sev = "info"
                 /\ s.core.verdict = "critical-issues" <=> \E f \in Mech(s) : f.sev \in {"critical", "high"}
    <3>1. (\A s \in report' : ~Quick(s) => Follows(s)) => VerdictIsMechanical'
      BY Zenon DEF VerdictIsMechanical
    <3>2. Mech(r) = Mechanical(found)
      BY <1>7, <1>8, <1>11
    <3> HIDE DEF Mech
    <3>3. out = "critical-issues" <=> \E f \in Mechanical(found) : f.sev \in {"critical", "high"}
      BY <1>2, <1>5, <1>6 DEF Mechanical
    <3>4. out = "clean" <=> available /\ \A f \in Mechanical(found) : f.sev = "info"
      BY <1>5, <1>6
    <3>5. Follows(r)
      BY <1>7, <1>8, <1>12, <3>2, <3>3, <3>4
    <3> HIDE DEF Follows
    <3> QED
      BY <2>1, <3>1, <3>5
  <2>5. FindingCitesItsContent' /\ NothingLost'
    BY <2>1 DEF FindingCitesItsContent, NothingLost
  <2> QED
    BY <2>2, <2>3, <2>4, <2>5 DEF AuditsVerify
<1> QED
  BY <1>1, <1>2, <1>3, <1>13, Zenon DEF AuditInv, DeepStages

LEMMA AuditInvHolds == MCSpec => []AuditInv
<1>1. AuditInit \/ RestAudit => AuditInv
  BY AuditStarts
<1>2. AuditInv /\ [AuditNext]_auditVars => AuditInv'
  <2> SUFFICES ASSUME AuditInv, [AuditNext]_auditVars PROVE AuditInv'
    OBVIOUS
  <2>1. CASE EditFile \/ AuditFile \/ AuditDeps \/ AuditLlm \/ AuditSeal
    BY <2>1, EditFileKeeps, AuditFileKeeps, AuditDepsKeeps, AuditLlmKeeps, AuditSealKeeps
  <2>2. CASE DeepStart \/ DeepTool \/ DeepAdvisory \/ DeepReview \/ DeepSeal
    BY <2>2, DeepStartKeeps, DeepToolKeeps, DeepAdvisoryKeeps, DeepReviewKeeps, DeepSealKeeps
  <2>3. CASE UNCHANGED auditVars
    <3>1. UNCHANGED <<aud, tree, edits, report>>
      BY <2>3 DEF auditVars
    <3>2. AuditsVerify'
      BY <3>1 DEF AuditInv, AuditsVerify, EveryAuditVerifies, FindingCitesItsContent, NothingLost, DeepEditRefused,
                  VerdictIsMechanical
    <3>3. RanNames' = RanNames /\ PlanTools' = PlanTools /\ QuickOK(aud)' = QuickOK(aud)
      BY <3>1 DEF RanNames, PlanTools, QuickOK, HitOK
    <3> QED
      BY <3>1, <3>2, <3>3 DEF AuditInv, DeepStages
  <2> QED
    BY <2>1, <2>2, <2>3 DEF AuditNext
<1> QED
  BY <1>1, <1>2, AuditPart, PTL

(* Every sealed security audit of either tier verifies, its findings cite  *)
(* what they were found in, nothing found is lost, an edited deep report   *)
(* is refused and its verdict is what the tools and advisories found.      *)
THEOREM AuditsHold == MCSpec => []AuditsVerify
<1>1. AuditInv => AuditsVerify
  BY DEF AuditInv
<1> QED
  BY <1>1, AuditInvHolds, PTL
=============================================================================
