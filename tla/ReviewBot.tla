------------------------------ MODULE ReviewBot ------------------------------
(***************************************************************************)
(* The reference agents (src/agents): a buyer pays for the review of a     *)
(* pull request, ReviewBot posts it on GitHub under its CCI-bound login    *)
(* and anchors a signed delivery attestation, anyone verifies it.  Jobs    *)
(* are paid in DEM (buyer.ts: pay, then await the delivery) or over x402   *)
(* (live/paywall.ts: work, then settle).  A step is what an agent does     *)
(* between two awaits.                                                      *)
(*                                                                         *)
(* External: GitHub (one pull request with its reviews, which others may   *)
(* also write or delete), the CCI registry and the session core of the SDK.*)
(***************************************************************************)
EXTENDS Integers, Sequences, FiniteSets

CONSTANTS
  ReviewJobs,       \* job ids, all on the same pull request
  Attempts,         \* calls of deliverReview
  MaxReviewFaults,  \* bound on failing anchors and settlements
  MaxVisitors       \* bound on reviews others write or delete

VARIABLES
  bound,        \* the login the CCI registry binds to the seller's DID
  rail,         \* rail[j]: "pay-dem" or "pay-x402"
  order,        \* order[j]: "new", "vetted", "paid", "completed", "failed"
  reviews,      \* the reviews on the pull request: [id, author, job]
  attestation,  \* attestation[j]: {} or {[reviewId, ghStateHash]}, the anchor of job j
  attempt,      \* attempt[a]: [at, job, review, hash] of one deliverReview
  postings,     \* history: [id, job] of every review ReviewBot posted
  anchorFailed, \* history: jobs a review was posted for whose anchor failed
  excusedJobs,  \* history: jobs whose calls overlapped or whose review was deleted
  reviewFaults, visitors

reviewVars == <<bound, rail, order, reviews, attestation, attempt, postings, anchorFailed,
                excusedJobs, reviewFaults, visitors>>

Bot == "bot"        \* the login ReviewBot claims in its listing
NextId == 1 + Cardinality(postings) + visitors

IdleAttempt == [at |-> "idle", jobs |-> {}, review |-> 0, hash |-> {}]

ReviewInit ==
  /\ bound \in {Bot, "other", "none"}
  /\ rail \in [ReviewJobs -> {"pay-dem", "pay-x402"}]
  /\ order = [j \in ReviewJobs |-> "new"]
  /\ reviews = {} /\ postings = {} /\ anchorFailed = {} /\ excusedJobs = {}
  /\ attestation = [j \in ReviewJobs |-> {}]
  /\ attempt = [a \in Attempts |-> IdleAttempt]
  /\ reviewFaults = 0 /\ visitors = 0

-----------------------------------------------------------------------------
(* The vet: the binding of the DID must be the login the listing claims.   *)
Vet(j) ==
  /\ order[j] = "new"
  /\ order' = [order EXCEPT ![j] = IF bound = Bot THEN "vetted" ELSE "failed"]
  /\ UNCHANGED <<bound, rail, reviews, attestation, attempt, postings, anchorFailed,
                 excusedJobs, reviewFaults, visitors>>

PayDem(j) ==
  /\ order[j] = "vetted" /\ rail[j] = "pay-dem"
  /\ order' = [order EXCEPT ![j] = "paid"]
  /\ UNCHANGED <<bound, rail, reviews, attestation, attempt, postings, anchorFailed,
                 excusedJobs, reviewFaults, visitors>>

(* A call of the work: the payment watcher's, or the paywall's for a       *)
(* verified payment.                                                       *)
Called(j) == order[j] = (IF rail[j] = "pay-dem" THEN "paid" ELSE "vetted")
Serving(a, j) == attempt[a].jobs = {j}
Running(j) == {a \in Attempts : Serving(a, j) /\ attempt[a].at \in {"generating", "anchoring"}}

(* An anchored delivery whose review is still there is delivered again.    *)
Reusable(j) ==
  \E d \in attestation[j] : \E r \in reviews : r.id = d.reviewId /\ r.author = Bot

DeliverStart(a, j) ==
  /\ Called(j) /\ attempt[a].at = "idle"
  /\ attempt' = [attempt EXCEPT ![a].jobs = {j},
                                ![a].at = IF Reusable(j) THEN "delivered" ELSE "generating"]
  /\ excusedJobs' = IF Running(j) # {} /\ ~Reusable(j) THEN excusedJobs \cup {j} ELSE excusedJobs
  /\ UNCHANGED <<bound, rail, order, reviews, attestation, postings, anchorFailed, reviewFaults,
                 visitors>>

(* The review (the LLM's, or the heuristic's when that fails) is posted    *)
(* and the resulting state of the pull request hashed, in one step.        *)
PostReview(a, j) ==
  LET review == [id |-> NextId, author |-> Bot, job |-> {j}] IN
  /\ Serving(a, j) /\ attempt[a].at = "generating"
  /\ reviews' = reviews \cup {review}
  /\ postings' = postings \cup {[id |-> NextId, job |-> j]}
  /\ attempt' = [attempt EXCEPT ![a].at = "anchoring", ![a].review = review.id, ![a].hash = reviews']
  /\ UNCHANGED <<bound, rail, order, attestation, anchorFailed, excusedJobs, reviewFaults, visitors>>

AnchorDelivery(a, j) ==
  /\ Serving(a, j) /\ attempt[a].at = "anchoring"
  /\ attestation' = [attestation EXCEPT ![j] =
       {[reviewId |-> attempt[a].review, ghStateHash |-> attempt[a].hash]}]
  /\ attempt' = [attempt EXCEPT ![a].at = "delivered"]
  /\ UNCHANGED <<bound, rail, order, reviews, postings, anchorFailed, excusedJobs, reviewFaults,
                 visitors>>

AnchorThrows(a, j) ==
  /\ Serving(a, j) /\ attempt[a].at = "anchoring" /\ reviewFaults < MaxReviewFaults
  /\ attempt' = [attempt EXCEPT ![a].at = "thrown"]
  /\ anchorFailed' = anchorFailed \cup {j}
  /\ reviewFaults' = reviewFaults + 1
  /\ UNCHANGED <<bound, rail, order, reviews, attestation, postings, excusedJobs, visitors>>

(* What the buyer's settle, and the paywall, wait for.                     *)
WorkDelivered(a, j) == Serving(a, j) /\ attempt[a].at = "delivered"
OnGitHub == \E r \in reviews : r.author = bound

(* The settle seam reports ok only when the delivery returned and a review *)
(* by the bound login is on the pull request.                              *)
SettleDem(a, j) ==
  /\ rail[j] = "pay-dem" /\ order[j] = "paid" /\ WorkDelivered(a, j)
  /\ order' = [order EXCEPT ![j] = IF OnGitHub THEN "completed" ELSE "failed"]
  /\ UNCHANGED <<bound, rail, reviews, attestation, attempt, postings, anchorFailed,
                 excusedJobs, reviewFaults, visitors>>

(* The paywall settles after the work; if that fails the buyer may call    *)
(* again and the delivery is reused.                                       *)
SettleX402(a, j) ==
  /\ rail[j] = "pay-x402" /\ order[j] = "vetted" /\ WorkDelivered(a, j)
  /\ \/ /\ order' = [order EXCEPT ![j] = IF OnGitHub THEN "completed" ELSE "failed"]
        /\ UNCHANGED <<attempt, reviewFaults>>
     \/ /\ reviewFaults < MaxReviewFaults
        /\ reviewFaults' = reviewFaults + 1
        /\ attempt' = [attempt EXCEPT ![a].at = "thrown"]
        /\ UNCHANGED order
  /\ UNCHANGED <<bound, rail, reviews, attestation, postings, anchorFailed, excusedJobs, visitors>>

(* Other people on the pull request (external).                            *)
VisitorReviews ==
  /\ visitors < MaxVisitors
  /\ visitors' = visitors + 1
  /\ reviews' = reviews \cup {[id |-> NextId, author |-> "visitor", job |-> {}]}
  /\ UNCHANGED <<bound, rail, order, attestation, attempt, postings, anchorFailed, excusedJobs,
                 reviewFaults>>

ReviewDeleted(r) ==
  /\ r \in reviews /\ visitors < MaxVisitors
  /\ visitors' = visitors + 1
  /\ reviews' = reviews \ {r}
  /\ excusedJobs' = excusedJobs \cup r.job
  /\ UNCHANGED <<bound, rail, order, attestation, attempt, postings, anchorFailed, reviewFaults>>

ReviewNext ==
  \/ \E j \in ReviewJobs : Vet(j) \/ PayDem(j)
  \/ \E a \in Attempts, j \in ReviewJobs :
       \/ DeliverStart(a, j) \/ PostReview(a, j) \/ AnchorDelivery(a, j) \/ AnchorThrows(a, j)
       \/ SettleDem(a, j) \/ SettleX402(a, j)
  \/ VisitorReviews
  \/ \E r \in reviews : ReviewDeleted(r)

ReviewSpec == ReviewInit /\ [][ReviewNext]_reviewVars

-----------------------------------------------------------------------------
(* verifyDelivery, by anyone.                                              *)
verifyDelivery(j) ==
  \E d \in attestation[j] :
    /\ bound = Bot
    /\ \E r \in reviews : r.id = d.reviewId /\ r.author = Bot
    /\ d.ghStateHash = reviews

-----------------------------------------------------------------------------
(* An order is completed only after a review was posted for that very job, *)
(* on either rail, and nothing was paid to a seller the registry does not  *)
(* bind to the login.                                                      *)
CompletedMeansDelivered ==
  \A j \in ReviewJobs :
    /\ order[j] = "completed" => \E p \in postings : p.job = j
    /\ order[j] \in {"paid", "completed"} => bound = Bot

(* A delivery verifies for anyone as long as the pull request is as the    *)
(* attestation left it.                                                    *)
DeliveryVerifies ==
  \A j \in ReviewJobs : \A d \in attestation[j] : d.ghStateHash = reviews => verifyDelivery(j)

(* A job is reviewed once, however often the delivery is called, unless an *)
(* anchor failed, two calls overlapped or its review was deleted.          *)
ReviewedOnce ==
  \A j \in ReviewJobs : j \notin anchorFailed \cup excusedJobs =>
    Cardinality({p \in postings : p.job = j}) <= 1

(* seller.ts says of deliverReview: "a retry after an anchor/network       *)
(* failure (e.g. the review posted but the anchor didn't) doesn't          *)
(* double-post".                                                           *)
RetryDoesNotDoublePost ==
  \A j \in ReviewJobs : j \notin excusedJobs =>
    Cardinality({p \in postings : p.job = j}) <= 1
=============================================================================
