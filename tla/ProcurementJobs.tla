--------------------------- MODULE ProcurementJobs ---------------------------
(***************************************************************************)
(* LiveProcurementJobs (gateway/live-procurement.ts): the buyer's journal  *)
(* of paid procurement jobs.  A job is negotiated, paid, delivered and     *)
(* finalised on one lane, behind a bounded queue; every step of it is      *)
(* persisted before the next one starts.  The process may die anywhere:    *)
(* the journal, the chain and what was sent to it survive, the queue, the  *)
(* idempotency index, the running job and the retry timers do not.         *)
(*                                                                         *)
(* broadcastNativePayment signs every attempt of a job's payment with the  *)
(* same wallet nonce, so at most one attempt can be included: a payment is *)
(* named by the number of its attempt.  JavaScript runs a handler to its   *)
(* next await, so a step is the code between two awaits.  The journal file *)
(* and the job in memory agree at every await but one: a failed            *)
(* finalisation is recorded when the abort that follows it is anchored.    *)
(***************************************************************************)
EXTENDS Integers, Sequences, FiniteSets, TLC

CONSTANTS
  Jobs,           \* job ids
  Keys,           \* idempotency keys (their hashes)
  None,           \* no key, no job
  Rails,          \* payment rails requests ask for
  Profiles,       \* procurement profiles: "fixed" or "rfq"
  MaxBroadcasts,  \* attempts of broadcastNativePayment
  MaxFinalise,    \* attempts of the automatic finalisation (3 in the code)
  QueueLimit,     \* queueLimit()
  HourlyLimit,    \* starts per hour
  Durable,        \* durableFinalisationEnabled()
  MaxRestarts,    \* bound on the restarts explored
  MaxRecoveries   \* bound on the recoveries of one job explored

ASSUME JobsAssumption ==
  /\ None \notin Jobs \cup Keys
  /\ Rails \subseteq {"native", "x402"} /\ Profiles \subseteq {"fixed", "rfq"}
  /\ MaxBroadcasts \in Nat \ {0} /\ MaxFinalise \in Nat /\ QueueLimit \in Nat
  /\ HourlyLimit \in Nat \ {0} /\ Durable \in BOOLEAN
  /\ MaxRestarts \in Nat /\ MaxRecoveries \in Nat

VARIABLES
  job,       \* job[j]: the journal file of j
  index,     \* jobsByIdempotencyKey
  recent,    \* jobs whose createdAt lies within the hour
  starts,    \* starts: the jobs counted against the hourly limit
  active,    \* activeJobId
  pending,   \* the queue: <<job, "run" or "recover">>
  stage,     \* the await at which the active job is
  attempt,   \* attempt of the active job's payment
  timers,    \* jobs with a pending retry timer
  boot,      \* jobs the constructor will resume in a microtask
  sent,      \* sent[j]: attempts the node has accepted and not dropped
  paid,      \* paid[j]: attempts included in a block
  bundles,   \* bundles[j]: completion bundles on chain
  restarts

volatile == <<index, starts, active, pending, stage, attempt, timers, boot>>
chain == <<sent, paid, bundles>>
vars == <<job, recent, volatile, chain, restarts>>

Txs == 1..MaxBroadcasts
NoTx == 0
Job == [status : {"none", "running", "failed", "complete"}, key : Keys \cup {None},
        rail : {"none", "native", "x402"}, profile : {"none", "fixed", "rfq"},
        session : {"none", "committed", "settling", "aborted", "finalised"},
        settling : BOOLEAN,              \* an event of phase "settling" is recorded
        tx : Txs \cup {NoTx},            \* txRef of the last "Payment broadcast on Demos"
        unpaid : BOOLEAN,                \* failedBeforePayment
        preview : BOOLEAN,
        fin : {"none", "running", "failed", "complete"}, attempts : Nat,
        recovery : {"none", "running", "failed", "complete"}, recoveries : Nat]
NoJob == [status |-> "none", key |-> None, rail |-> "none", profile |-> "none",
          session |-> "none", settling |-> FALSE, tx |-> NoTx, unpaid |-> FALSE,
          preview |-> FALSE, fin |-> "none", attempts |-> 0,
          recovery |-> "none", recoveries |-> 0]

Stages == {"idle", "negotiate", "vet", "pay", "accepted", "await", "settle",
           "deliver", "finalise", "check", "accept", "abort", "recover"}

Init ==
  /\ job = [j \in Jobs |-> NoJob]
  /\ index = [k \in Keys |-> None] /\ recent = {} /\ starts = {}
  /\ active = None /\ pending = <<>> /\ stage = "idle" /\ attempt = 1
  /\ timers = {} /\ boot = {}
  /\ sent = [j \in Jobs |-> {}] /\ paid = [j \in Jobs |-> {}]
  /\ bundles = [j \in Jobs |-> {}]
  /\ restarts = 0

-----------------------------------------------------------------------------
(* The lane *)

(* assertQueueCapacity.                                                    *)
HasCapacity == (active = None /\ pending = <<>>) \/ Len(pending) < QueueLimit

(* pumpQueue: with the lane free the head of q becomes the active job.     *)
Pump(q) ==
  IF q = <<>>
  THEN active' = None /\ stage' = "idle" /\ pending' = q /\ UNCHANGED attempt
  ELSE /\ active' = Head(q)[1] /\ pending' = Tail(q) /\ attempt' = 1
       /\ stage' = IF Head(q)[2] = "run" THEN "negotiate" ELSE "recover"

Enqueue(item) ==
  IF active = None
  THEN Pump(Append(pending, item))
  ELSE pending' = Append(pending, item) /\ UNCHANGED <<active, stage, attempt>>

(* Mutant: only a recorded transaction counts as a payment.                *)
PaymentMayHaveBroadcast_TxOnly(r) == r.tx # NoTx

(* paymentMayHaveBroadcast.                                                *)
PaymentMayHaveBroadcast(r) == r.settling

(* recoverablePayment: the record names the payment to resume.             *)
Recoverable(r) ==
  r.status = "failed" /\ r.session = "aborted" /\ r.tx # NoTx

-----------------------------------------------------------------------------
(* Requests *)

(* startRequest of a request that no job answers yet.                      *)
StartRequest(j, k, rail, profile) ==
  /\ job[j].status = "none"
  /\ k # None => index[k] = None
  /\ HasCapacity
  /\ Cardinality(starts) < HourlyLimit
  /\ job' = [job EXCEPT ![j] = [NoJob EXCEPT !.status = "running", !.key = k,
                                             !.rail = rail, !.profile = profile]]
  /\ index' = IF k = None THEN index ELSE [index EXCEPT ![k] = j]
  /\ recent' = recent \cup {j} /\ starts' = starts \cup {j}
  /\ Enqueue(<<j, "run">>)
  /\ UNCHANGED <<timers, boot, chain, restarts>>

HourPasses(j) ==
  /\ j \in recent
  /\ recent' = recent \ {j} /\ starts' = starts \ {j}
  /\ UNCHANGED <<job, index, active, pending, stage, attempt, timers, boot, chain, restarts>>

(* The record of a job that is being recovered.                            *)
Resumed(r) ==
  LET s == [r EXCEPT !.status = "running", !.recovery = "running", !.recoveries = @ + 1]
  IN  IF r.fin = "none" THEN s ELSE [s EXCEPT !.fin = "running", !.attempts = @ + 1]

(* recover, once its checks have passed.                                   *)
Resume(j) ==
  /\ job' = [job EXCEPT ![j] = Resumed(job[j])]
  /\ Enqueue(<<j, "recover">>)

MayResume(j) == Recoverable(job[j]) /\ HasCapacity

(* An exact replay of the request, or the operator: POST .../recover.      *)
Recover(j) ==
  /\ MayResume(j) /\ job[j].recoveries < MaxRecoveries
  /\ Resume(j)
  /\ UNCHANGED <<index, recent, starts, timers, boot, chain, restarts>>

-----------------------------------------------------------------------------
(* A run: the awaits of run and runFixed, in order.  The active job is at  *)
(* stage s, and moves on to stage t with record r.                         *)
At(s) == active # None /\ stage = s
Native == job[active].rail = "native"
Goto(t, r) ==
  /\ job' = [job EXCEPT ![active] = r]
  /\ stage' = t
  /\ UNCHANGED <<index, recent, starts, active, pending, attempt, timers, boot, restarts>>
(* The lane's promise has settled: the journal is closed, the queue pumped. *)
Leave(r) ==
  /\ job' = [job EXCEPT ![active] = r]
  /\ Pump(pending)
  /\ UNCHANGED <<index, recent, starts, boot, restarts>>

(* Mutant: only a session that is settling is aborted.                     *)
Closed_Settling(r, unpaid) ==
  [r EXCEPT !.status = "failed", !.unpaid = unpaid,
            !.session = IF @ = "committed" THEN "aborted" ELSE @]

(* A record closed as failed; a session that is not finalised is aborted.  *)
Closed(r, unpaid) ==
  [r EXCEPT !.status = "failed", !.unpaid = unpaid,
            !.session = IF @ \in {"none", "finalised"} THEN @ ELSE "aborted"]

(* The run's fail handler.                                                 *)
Failed(r) == Closed(r, ~PaymentMayHaveBroadcast(r))

(* Connecting, discovery, selection and negotiation: the commitment is     *)
(* anchored and the session record persisted.                              *)
Negotiated ==
  /\ At("negotiate")
  /\ Goto("vet", [job[active] EXCEPT !.session = "committed"])
  /\ UNCHANGED chain

NegotiationFails ==
  /\ At("negotiate")
  /\ Leave(Failed(job[active]))
  /\ UNCHANGED <<timers, chain>>

(* Both Vet records are confirmed; "Paying ..." is recorded first.         *)
VetConfirmed ==
  /\ At("vet")
  /\ Goto("pay", [job[active] EXCEPT !.settling = TRUE, !.session = "settling"])
  /\ UNCHANGED chain

(* The node takes the transaction (the facilitator settles it), before the *)
(* caller hears of it.                                                     *)
NodeAccepts ==
  /\ At("pay") /\ Native
  /\ sent' = [sent EXCEPT ![active] = @ \cup {attempt}]
  /\ Goto("accepted", job[active])
  /\ UNCHANGED <<paid, bundles>>

FacilitatorSettles ==
  /\ At("pay") /\ ~Native
  /\ paid' = [paid EXCEPT ![active] = {attempt}]
  /\ Goto("accepted", job[active])
  /\ UNCHANGED <<sent, bundles>>

(* The answer arrives and is recorded; only a native one is recorded under *)
(* the label that recovery looks for.                                      *)
BroadcastReturns ==
  /\ At("accepted")
  /\ IF Native THEN Goto("await", [job[active] EXCEPT !.tx = attempt])
               ELSE Goto("settle", job[active])
  /\ UNCHANGED chain

(* Another attempt with the same nonce, or none is left.                   *)
NextAttempt ==
  /\ UNCHANGED <<job, index, recent, starts, active, pending, timers, boot, chain, restarts>>
  /\ IF attempt < MaxBroadcasts
     THEN attempt' = attempt + 1 /\ stage' = "pay"
     ELSE stage' = "abort" /\ UNCHANGED attempt

(* transfer or confirm fails, or the node rejects the broadcast.           *)
BroadcastRejected ==
  /\ At("pay") /\ Native
  /\ NextAttempt

(* The poll reports inclusion in a block.                                  *)
PaymentIncluded ==
  /\ At("await") /\ attempt \in paid[active]
  /\ Goto("settle", job[active])
  /\ UNCHANGED chain

(* Mutant: a payment that is not included within the window counts as dropped. *)
PaymentDropped_Pending ==
  /\ At("await") /\ attempt \notin paid[active]
  /\ NextAttempt

(* The status RPC proves that the transaction was dropped.                 *)
PaymentDropped ==
  /\ At("await") /\ attempt \notin sent[active] \cup paid[active]
  /\ NextAttempt

(* The seller confirms the settlement, the payment evidence is anchored.   *)
Settled ==
  /\ At("settle") /\ attempt \in paid[active]
  /\ Goto("deliver", job[active])
  /\ UNCHANGED chain

(* The delivery is verified: the preview and the finalisation are recorded. *)
DeliveryVerified ==
  /\ At("deliver")
  /\ Goto("finalise", [job[active] EXCEPT !.preview = TRUE, !.fin = "running", !.attempts = 1])
  /\ UNCHANGED chain

(* completeStandard returns: both parties' bundles are on chain.           *)
BundlesComplete ==
  /\ At("finalise") /\ {"buyer", "seller"} \subseteq bundles[active]
  /\ Goto("check", job[active])
  /\ UNCHANGED chain

(* An await inside the try throws: the payment deadline, an indeterminate  *)
(* broadcast, a seller that rejects or does not answer.  The failed        *)
(* finalisation reaches the journal with the next event, or not.           *)
Throws ==
  /\ active # None
  /\ stage \in {"vet", "pay", "accepted", "await", "settle", "deliver", "finalise"}
  /\ \E fin \in IF job[active].fin = "running" THEN {"running", "failed"} ELSE {job[active].fin} :
       Goto("abort", [job[active] EXCEPT !.fin = fin])
  /\ UNCHANGED chain

(* abortStandard anchors the abort bundle under the name of the buyer's    *)
(* completion bundle; its own failure is ignored.                          *)
Aborted ==
  /\ At("abort")
  /\ bundles' \in {bundles, [bundles EXCEPT ![active] = (@ \ {"buyer"}) \cup {"abort"}]}
  /\ Leave(Failed([job[active] EXCEPT !.fin = IF @ = "running" THEN "failed" ELSE @]))
  /\ UNCHANGED <<timers, sent, paid>>

(* The two copies verify and reconcile: the session is finalised.          *)
Reconciled ==
  /\ At("check")
  /\ Goto("accept", [job[active] EXCEPT !.session = "finalised"])
  /\ UNCHANGED chain

(* They do not, or a later await throws (the balance, EvalBot's ruling).   *)
(* runFixed closes the finalisation; run has left its try block.           *)
FinalCheckFails ==
  /\ At("check") \/ At("accept")
  /\ Leave(Failed([job[active] EXCEPT
        !.fin = IF job[active].profile = "fixed" THEN "failed" ELSE @]))
  /\ UNCHANGED <<timers, chain>>

Completed(r) == [r EXCEPT !.status = "complete", !.preview = FALSE,
                          !.fin = IF @ = "none" THEN @ ELSE "complete"]

Accepted ==
  /\ At("accept")
  /\ Leave(Completed(job[active]))
  /\ UNCHANGED <<timers, chain>>

-----------------------------------------------------------------------------
(* Recovery: runRecovery and its fail handler.                             *)

(* recoverStandard: the seller recognises the settlement by the payment    *)
(* the journal names.                                                      *)
Recognised == At("recover") /\ job[active].tx \in paid[active]

(* It delivered, and both copies of the completion bundle are on chain.    *)
RecoverySucceeds ==
  /\ Recognised /\ {"recovery", "seller"} \subseteq bundles[active]
  /\ Leave([Completed(job[active]) EXCEPT !.recovery = "complete"])
  /\ UNCHANGED <<timers, chain>>

(* scheduleDurableFinalisationRetry: after a transient failure.            *)
MayRetry(r) ==
  Durable /\ r.fin # "none" /\ r.preview /\ r.attempts < MaxFinalise /\ Recoverable(r)

RecoveryFails(transient) ==
  LET r == [job[active] EXCEPT !.status = "failed", !.unpaid = FALSE, !.recovery = "failed",
                               !.fin = IF @ = "none" THEN @ ELSE "failed"]
      retry == transient /\ MayRetry(r)
  IN
  /\ At("recover")
  /\ Leave(IF retry THEN [r EXCEPT !.fin = "running"] ELSE r)
  /\ timers' = IF retry THEN timers \cup {active} ELSE timers
  /\ UNCHANGED chain

(* Mutant: what recover throws is swallowed.                               *)
SelfResume_Swallows(j) ==
  IF MayResume(j)
  THEN Resume(j)
  ELSE UNCHANGED <<job, active, pending, stage, attempt>>

(* recover called by the process itself; what it throws ends the           *)
(* finalisation.                                                           *)
SelfResume(j) ==
  IF MayResume(j)
  THEN Resume(j)
  ELSE /\ job' = [job EXCEPT ![j].fin = "failed"]
       /\ UNCHANGED <<active, pending, stage, attempt>>

TimerFires(j) ==
  /\ j \in timers
  /\ timers' = timers \ {j}
  /\ IF job[j].status = "failed" /\ job[j].fin = "running"
     THEN SelfResume(j)
     ELSE UNCHANGED <<job, active, pending, stage, attempt>>
  /\ UNCHANGED <<index, recent, starts, boot, chain, restarts>>

BootResume(j) ==
  /\ j \in boot
  /\ boot' = boot \ {j}
  /\ SelfResume(j)
  /\ UNCHANGED <<index, recent, starts, timers, chain, restarts>>

-----------------------------------------------------------------------------
(* Restart: the constructor reads every journal file.                      *)

Resumable(r) == Durable /\ r.fin = "running" /\ r.preview /\ r.tx # NoTx

(* A job that was running is closed as failed.                             *)
Interrupted(r) ==
  [Closed(r, r.recovery # "running" /\ ~PaymentMayHaveBroadcast(r)) EXCEPT
     !.recovery = IF @ = "running" THEN "failed" ELSE @,
     !.fin = IF @ = "running" /\ ~Resumable(r) THEN "failed" ELSE @]

(* Mutant: what was running is taken to be running still.                  *)
Loaded_AsIs(r) == r

Loaded(r) == IF r.status = "running" THEN Interrupted(r) ELSE r

ResumesAtBoot(r) ==
  \/ r.status = "running" /\ Resumable(r)
  \/ Recoverable(Loaded(r)) /\ Resumable(Loaded(r)) /\ r.attempts < MaxFinalise

(* Mutant: jobs that failed are left out of the index.                     *)
Rebuilt_CompleteOnly(k) ==
  LET found == {j \in Jobs : job[j].key = k /\ job[j].status = "complete"}
  IN  IF found = {} THEN None ELSE CHOOSE j \in found : TRUE

(* The first job accepted under the key, whatever became of it.            *)
Rebuilt(k) ==
  LET found == {j \in Jobs : job[j].key = k}
  IN  IF found = {} THEN None ELSE CHOOSE j \in found : TRUE

(* Every file younger than an hour counts.                                 *)
CountedStarts == recent

Restart ==
  /\ restarts < MaxRestarts
  /\ restarts' = restarts + 1
  /\ job' = [j \in Jobs |-> Loaded(job[j])]
  /\ boot' = {j \in Jobs : ResumesAtBoot(job[j])}
  /\ index' = [k \in Keys |-> Rebuilt(k)] /\ starts' = CountedStarts
  /\ active' = None /\ pending' = <<>> /\ stage' = "idle" /\ attempt' = 1
  /\ timers' = {}
  /\ UNCHANGED <<recent, chain>>

-----------------------------------------------------------------------------
(* The chain and the seller *)

Include(j, n) ==
  /\ n \in sent[j] /\ paid[j] = {}
  /\ paid' = [paid EXCEPT ![j] = {n}]
  /\ sent' = [sent EXCEPT ![j] = @ \ {n}]
  /\ UNCHANGED <<job, recent, volatile, bundles, restarts>>

Drop(j, n) ==
  /\ n \in sent[j]
  /\ sent' = [sent EXCEPT ![j] = @ \ {n}]
  /\ UNCHANGED <<job, recent, volatile, paid, bundles, restarts>>

(* The buyer's copy is anchored while completeStandard waits, in a         *)
(* recovery under a name of its own; the seller's, once it may have been   *)
(* asked for it.                                                           *)
BuyerAnchorsBundle ==
  /\ At("finalise") \/ Recognised
  /\ bundles' = [bundles EXCEPT ![active] =
                   @ \cup {IF stage = "finalise" THEN "buyer" ELSE "recovery"}]
  /\ UNCHANGED <<job, recent, volatile, sent, paid, restarts>>

SellerAnchorsBundle(j) ==
  /\ job[j].preview \/ (active = j /\ Recognised)
  /\ bundles' = [bundles EXCEPT ![j] = @ \cup {"seller"}]
  /\ UNCHANGED <<job, recent, volatile, sent, paid, restarts>>

(* The next await of the active job settles.                               *)
Lane ==
  \/ Negotiated \/ NegotiationFails \/ VetConfirmed
  \/ NodeAccepts \/ FacilitatorSettles \/ BroadcastReturns \/ BroadcastRejected
  \/ PaymentIncluded \/ PaymentDropped \/ Settled \/ DeliveryVerified
  \/ BundlesComplete \/ Throws \/ Aborted
  \/ Reconciled \/ FinalCheckFails \/ Accepted
  \/ RecoverySucceeds \/ \E transient \in BOOLEAN : RecoveryFails(transient)

(* Microtasks of the constructor run before anything else in the process.  *)
Process ==
  \/ \E j \in boot : BootResume(j)
  \/ /\ boot = {}
     /\ \/ Lane
        \/ \E j \in Jobs : Recover(j) \/ TimerFires(j)
        \/ \E j \in Jobs, k \in Keys \cup {None}, rail \in Rails, profile \in Profiles :
             StartRequest(j, k, rail, profile)

Environment ==
  \/ Restart \/ BuyerAnchorsBundle
  \/ \E j \in Jobs : HourPasses(j) \/ SellerAnchorsBundle(j)
  \/ \E j \in Jobs, n \in Txs : Include(j, n) \/ Drop(j, n)

Next == Process \/ Environment
Spec == Init /\ [][Next]_vars

(* Every awaited call of the lane returns or throws, timers fire.          *)
Fairness ==
  /\ WF_vars(boot = {} /\ Lane) /\ WF_vars(\E j \in boot : BootResume(j))
  /\ \A j \in Jobs : WF_vars(boot = {} /\ TimerFires(j))
LiveSpec == Spec /\ Fairness

-----------------------------------------------------------------------------
(* Properties *)

TypeOK ==
  /\ job \in [Jobs -> Job]
  /\ index \in [Keys -> Jobs \cup {None}] /\ recent \subseteq Jobs /\ starts \subseteq Jobs
  /\ active \in Jobs \cup {None} /\ pending \in Seq(Jobs \X {"run", "recover"})
  /\ stage \in Stages /\ attempt \in Txs
  /\ timers \subseteq Jobs /\ boot \subseteq Jobs
  /\ sent \in [Jobs -> SUBSET Txs] /\ paid \in [Jobs -> SUBSET Txs]
  /\ bundles \in [Jobs -> SUBSET {"buyer", "seller", "abort", "recovery"}]
  /\ restarts \in 0..MaxRestarts

(* An idempotency key buys one job, whatever its fate and the restarts in  *)
(* between: a retry of a lost response never starts a second purchase.     *)
OneJobPerKey ==
  \A i, j \in Jobs : job[i].key = job[j].key /\ job[i].key # None => i = j

(* At most HourlyLimit purchases are started within any hour, restarts of  *)
(* the gateway included: each of them spends the buyer wallet's money.     *)
HourlyBudget == Cardinality(recent) <= HourlyLimit

(* A pending or indeterminate payment is never duplicated: at most one     *)
(* attempt of a job's payment is in flight or included.                    *)
NoDuplicatePayment == \A j \in Jobs : \A m, n \in sent[j] \cup paid[j] : m = n

(* failedBeforePayment is only said of a job no payment of which ever left. *)
UnpaidMeansUnpaid ==
  \A j \in Jobs : job[j].unpaid => sent[j] = {} /\ paid[j] = {}

(* A job that the journal calls running is on the lane or in the queue,    *)
(* once, and no other is; the queue keeps its limit.                       *)
QueueIsTheRunningJobs ==
  LET queued == {pending[n][1] : n \in 1..Len(pending)} \cup ({active} \ {None})
  IN  /\ queued = {j \in Jobs : job[j].status = "running"}
      /\ Cardinality(queued) = Len(pending) + (IF active = None THEN 0 ELSE 1)
      /\ Len(pending) <= QueueLimit

(* A complete job was paid, and both parties' completion bundles are on    *)
(* chain; an abort never replaced the buyer's.                             *)
CompleteIsReconciled ==
  \A j \in Jobs : job[j].status = "complete" =>
    /\ paid[j] # {} /\ "seller" \in bundles[j]
    /\ bundles[j] \cap {"buyer", "recovery"} # {}

(* A purchase that was paid and has failed can be recovered by the payment *)
(* its record names, with three exceptions: it was paid over x402, the     *)
(* answer to its last broadcast was lost, or it is stopped in between the  *)
(* finalised session and the completed job, with both bundles on chain.    *)
PaidIsNotLost ==
  \A j \in Jobs : job[j].status = "failed" /\ paid[j] # {} =>
    \/ Recoverable(job[j]) /\ paid[j] = {job[j].tx}
    \/ job[j].rail = "x402"
    \/ job[j].tx \notin paid[j]
    \/ job[j].session = "finalised" /\ {"buyer", "seller"} \subseteq bundles[j]

(* What becomes of the money: goods with both bundles, or a way back.      *)
PaymentHasAnOutcome == CompleteIsReconciled /\ PaidIsNotLost

(* A job on the lane or in the queue leaves it.                            *)
EveryJobEnds == \A j \in Jobs : job[j].status = "running" ~> job[j].status # "running"

(* A finalisation that is said to be running comes to an end: it completes *)
(* or fails, and is not left behind by a crash, a full queue or a refused  *)
(* recovery.                                                               *)
FinalisationEnds == \A j \in Jobs : job[j].fin = "running" ~> job[j].fin # "running"

(* The claim of recoverablePayment: where no payment can be bound the job  *)
(* stays stopped, so a recoverable job names the payment that was made.    *)
RecoveryBindsThePayment ==
  \A j \in Jobs : Recoverable(job[j]) => paid[j] \subseteq {job[j].tx}

(* The lane is bounded and is what the records say it is, also after a     *)
(* restart: the running jobs queue, and an hour starts no more than its    *)
(* limit.                                                                  *)
LaneIsBounded == QueueIsTheRunningJobs /\ HourlyBudget

(* No purchase hangs: neither a job nor the finalisation of one.           *)
JobsEnd == EveryJobEnds /\ FinalisationEnds

(* Job ids are random UUIDs: nothing but equality is ever asked of them.    *)
JobSymmetry == Permutations(Jobs)
=============================================================================
