----------------------- MODULE ProcurementJobs_proofs -----------------------
(***************************************************************************)
(* Proofs about ProcurementJobs for any number of jobs, keys, payment      *)
(* attempts, restarts and recoveries, and any queue and hourly limit.      *)
(***************************************************************************)
EXTENDS ProcurementJobs, FiniteSetTheorems, TLAPS

Items == Jobs \X {"run", "recover"}

-----------------------------------------------------------------------------
(* The queue *)

LEMMA TailTyped ==
  ASSUME NEW q \in Seq(Items), q # <<>>
  PROVE  /\ Head(q) \in Items /\ Tail(q) \in Seq(Items)
         /\ Head(q)[1] \in Jobs /\ Head(q) = q[1]
         /\ 1 \in 1..Len(q) /\ Len(Tail(q)) = Len(q) - 1
         /\ \A n \in 1..Len(Tail(q)) : n + 1 \in 1..Len(q) /\ Tail(q)[n] = q[n + 1]
<1>1. Len(q) \in Nat /\ Len(q) # 0
  OBVIOUS
<1>2. 1 \in 1..Len(q) /\ q[1] \in Items
  BY <1>1
<1>3. Head(q) = q[1] /\ Tail(q) \in Seq(Items) /\ Len(Tail(q)) = Len(q) - 1
  OBVIOUS
<1>4. \A n \in 1..Len(Tail(q)) : n + 1 \in 1..Len(q) /\ Tail(q)[n] = q[n + 1]
  BY <1>1, <1>3
<1> QED
  BY <1>2, <1>3, <1>4 DEF Items

LEMMA PumpTyped ==
  ASSUME TypeOK, NEW q \in Seq(Items), Pump(q)
  PROVE  /\ active' \in Jobs \cup {None} /\ pending' \in Seq(Items)
         /\ stage' \in Stages /\ attempt' \in Txs
<1> USE JobsAssumption
<1>1. CASE q = <<>>
  BY <1>1 DEF Pump, TypeOK, Stages
<1>2. CASE q # <<>>
  <2>1. Head(q)[1] \in Jobs /\ Tail(q) \in Seq(Items)
    BY <1>2, TailTyped
  <2>2. 1 \in Txs
    BY DEF Txs
  <2> QED
    BY <1>2, <2>1, <2>2 DEF Pump, Stages
<1> QED
  BY <1>1, <1>2

LEMMA EnqueueTyped ==
  ASSUME TypeOK, NEW item \in Items, Enqueue(item)
  PROVE  /\ active' \in Jobs \cup {None} /\ pending' \in Seq(Items)
         /\ stage' \in Stages /\ attempt' \in Txs
<1>1. pending \in Seq(Items) /\ Append(pending, item) \in Seq(Items)
  BY DEF TypeOK, Items
<1> QED
  BY <1>1, PumpTyped DEF Enqueue, TypeOK

-----------------------------------------------------------------------------
(* Records *)

LEMMA NoJobTyped == NoJob \in Job
BY DEF NoJob, Job, NoTx

LEMMA ClosedTyped ==
  ASSUME NEW r \in Job, NEW u \in BOOLEAN PROVE Closed(r, u) \in Job
<1> DEFINE s == IF r.session \in {"none", "finalised"} THEN r.session ELSE "aborted"
<1>1. s \in {"none", "committed", "settling", "aborted", "finalised"}
  BY DEF Job
<1> HIDE DEF s
<1>2. [r EXCEPT !.status = "failed", !.unpaid = u, !.session = s] \in Job
  BY <1>1 DEF Job
<1> QED
  BY <1>2 DEF Closed, s

LEMMA FailedTyped ==
  ASSUME NEW r \in Job PROVE Failed(r) \in Job
BY ClosedTyped DEF Failed

LEMMA ResumedTyped ==
  ASSUME NEW r \in Job PROVE Resumed(r) \in Job
<1> DEFINE c == r.recoveries + 1
           s == [r EXCEPT !.status = "running", !.recovery = "running", !.recoveries = c]
           n == s.attempts + 1
<1>1. c \in Nat
  BY DEF Job
<1> HIDE DEF c
<1>2. s \in Job
  <2> DEFINE q == [r EXCEPT !.status = "running", !.recovery = "running"]
  <2>1. q \in Job
    BY DEF Job
  <2>2. s = [q EXCEPT !.recoveries = c]
    OBVIOUS
  <2> HIDE DEF q, s
  <2> QED
    BY <1>1, <2>1, <2>2 DEF Job
<1> HIDE DEF s
<1>3. n \in Nat
  BY <1>2 DEF Job
<1> HIDE DEF n
<1>4. [s EXCEPT !.fin = "running", !.attempts = n] \in Job
  <2> DEFINE q == [s EXCEPT !.fin = "running"]
  <2>1. q \in Job
    BY <1>2 DEF Job
  <2> HIDE DEF q
  <2>2. [q EXCEPT !.attempts = n] \in Job
    BY <1>3, <2>1 DEF Job
  <2> QED
    BY <2>2 DEF q
<1> QED
  BY <1>2, <1>4 DEF Resumed, c, s, n

LEMMA FinTyped ==
  ASSUME NEW r \in Job, NEW f \in {"none", "running", "failed", "complete"}
  PROVE  [r EXCEPT !.fin = f] \in Job
BY DEF Job

LEMMA RecoveryTyped ==
  ASSUME NEW r \in Job, NEW v \in {"none", "running", "failed", "complete"}
  PROVE  [r EXCEPT !.recovery = v] \in Job
BY DEF Job

LEMMA CompletedTyped ==
  ASSUME NEW r \in Job PROVE Completed(r) \in Job
<1> DEFINE f == IF r.fin = "none" THEN r.fin ELSE "complete"
<1>1. f \in {"none", "complete"}
  OBVIOUS
<1>2. Completed(r) = [r EXCEPT !.status = "complete", !.preview = FALSE, !.fin = f]
  BY DEF Completed
<1> HIDE DEF f
<1>3. [r EXCEPT !.status = "complete", !.preview = FALSE, !.fin = f] \in Job
  BY <1>1 DEF Job
<1> QED
  BY <1>2, <1>3

LEMMA LoadedTyped ==
  ASSUME NEW r \in Job PROVE Loaded(r) \in Job
<1> DEFINE s == Closed(r, r.recovery # "running" /\ ~PaymentMayHaveBroadcast(r))
           v == IF s.recovery = "running" THEN "failed" ELSE s.recovery
           f == IF s.fin = "running" /\ ~Resumable(r) THEN "failed" ELSE s.fin
<1>1. s \in Job
  BY ClosedTyped
<1> HIDE DEF s
<1>2. /\ v \in {"none", "running", "failed", "complete"}
      /\ f \in {"none", "running", "failed", "complete"}
  BY <1>1 DEF Job
<1> HIDE DEF v, f
<1>3. [s EXCEPT !.recovery = v, !.fin = f] = [[s EXCEPT !.recovery = v] EXCEPT !.fin = f]
  OBVIOUS
<1>4. [s EXCEPT !.recovery = v, !.fin = f] \in Job
  BY <1>1, <1>2, <1>3, FinTyped, RecoveryTyped
<1> QED
  BY <1>4 DEF Loaded, Interrupted, s, v, f

LEMMA GotoTyped ==
  ASSUME TypeOK, active # None, NEW t \in Stages, NEW r \in Job, Goto(t, r),
         sent' \in [Jobs -> SUBSET Txs], paid' \in [Jobs -> SUBSET Txs],
         bundles' \in [Jobs -> SUBSET {"buyer", "seller", "abort", "recovery"}]
  PROVE  TypeOK'
BY DEF Goto, TypeOK

LEMMA LeaveTyped ==
  ASSUME TypeOK, active # None, NEW r \in Job, Leave(r), timers' \subseteq Jobs,
         sent' = sent, paid' = paid,
         bundles' \in [Jobs -> SUBSET {"buyer", "seller", "abort", "recovery"}]
  PROVE  TypeOK'
<1>1. pending \in Seq(Items)
  BY DEF TypeOK, Items
<1>2. /\ active' \in Jobs \cup {None} /\ pending' \in Seq(Items)
      /\ stage' \in Stages /\ attempt' \in Txs
  BY <1>1, PumpTyped DEF Leave
<1> QED
  BY <1>2 DEF Leave, TypeOK, Items

-----------------------------------------------------------------------------
(* The journal files, the lane and the chain keep their types: no payment  *)
(* attempt beyond the last, no stage or record outside what the code knows. *)
THEOREM Typing == Spec => []TypeOK
<1> USE JobsAssumption
<1>1. Init => TypeOK
  BY NoJobTyped DEF Init, TypeOK, Stages, Txs
<1>2. TypeOK /\ [Next]_vars => TypeOK'
  <2> SUFFICES ASSUME TypeOK, [Next]_vars PROVE TypeOK'
    OBVIOUS
  <2> USE DEF volatile, chain
  <2>1. ASSUME NEW j \in Jobs, NEW k \in Keys \cup {None}, NEW rail \in Rails, NEW profile \in Profiles,
               StartRequest(j, k, rail, profile)
        PROVE  TypeOK'
    <3> DEFINE r == [NoJob EXCEPT !.status = "running", !.key = k, !.rail = rail, !.profile = profile]
    <3>1. r \in Job
      BY NoJobTyped DEF Job
    <3>2. job' = [job EXCEPT ![j] = r]
      BY <2>1 DEF StartRequest
    <3> HIDE DEF r
    <3>3. job' \in [Jobs -> Job]
      BY <3>1, <3>2 DEF TypeOK
    <3>4. index' \in [Keys -> Jobs \cup {None}]
      BY <2>1 DEF StartRequest, TypeOK
    <3>5. <<j, "run">> \in Items
      BY DEF Items
    <3>6. /\ active' \in Jobs \cup {None} /\ pending' \in Seq(Items)
          /\ stage' \in Stages /\ attempt' \in Txs
      BY <2>1, <3>5, EnqueueTyped DEF StartRequest
    <3> QED
      BY <2>1, <3>3, <3>4, <3>6 DEF StartRequest, TypeOK, Items
  <2>2. ASSUME NEW j \in Jobs, Resume(j),
               UNCHANGED <<index, recent, starts, chain, restarts>>,
               timers' \subseteq Jobs, boot' \subseteq Jobs
        PROVE  TypeOK'
    <3>2. Resumed(job[j]) \in Job
      BY ResumedTyped DEF TypeOK
    <3>3. job' = [job EXCEPT ![j] = Resumed(job[j])]
      BY <2>2 DEF Resume
    <3>4. job' \in [Jobs -> Job]
      BY <3>2, <3>3 DEF TypeOK
    <3>5. <<j, "recover">> \in Items
      BY DEF Items
    <3>6. /\ active' \in Jobs \cup {None} /\ pending' \in Seq(Items)
          /\ stage' \in Stages /\ attempt' \in Txs
      BY <2>2, <3>5, EnqueueTyped DEF Resume
    <3> QED
      BY <2>2, <3>4, <3>6 DEF TypeOK, Items
  <2>3. ASSUME NEW j \in Jobs, SelfResume(j),
               UNCHANGED <<index, recent, starts, chain, restarts>>,
               timers' \subseteq Jobs, boot' \subseteq Jobs
        PROVE  TypeOK'
    <3>1. CASE MayResume(j)
      BY <2>2, <2>3, <3>1 DEF SelfResume
    <3>2. CASE ~MayResume(j)
      <4>0. job[j] \in Job
        BY DEF TypeOK
      <4>1. [job[j] EXCEPT !.fin = "failed"] \in Job
        BY <4>0 DEF Job
      <4>2. job' = [job EXCEPT ![j] = [job[j] EXCEPT !.fin = "failed"]]
        BY <2>3, <3>2 DEF SelfResume, TypeOK
      <4> QED
        BY <2>3, <3>2, <4>1, <4>2 DEF SelfResume, TypeOK
    <3> QED
      BY <3>1, <3>2
  <2>4. ASSUME NEW j \in Jobs, Recover(j) \/ TimerFires(j) \/ BootResume(j) PROVE TypeOK'
    <3>1. CASE Recover(j)
      BY <2>2, <3>1 DEF Recover, TypeOK
    <3>2. CASE TimerFires(j)
      <4>1. CASE job[j].status = "failed" /\ job[j].fin = "running"
        BY <2>3, <3>2, <4>1 DEF TimerFires, TypeOK
      <4>2. CASE ~(job[j].status = "failed" /\ job[j].fin = "running")
        BY <3>2, <4>2 DEF TimerFires, TypeOK
      <4> QED
        BY <4>1, <4>2
    <3>3. CASE BootResume(j)
      BY <2>3, <3>3 DEF BootResume, TypeOK
    <3> QED
      BY <2>4, <3>1, <3>2, <3>3
  <2>5. ASSUME Lane PROVE TypeOK'
    <3>1. active \in Jobs /\ active # None /\ job[active] \in Job
      BY <2>5 DEF TypeOK, Lane, Negotiated, NegotiationFails, VetConfirmed, NodeAccepts,
           FacilitatorSettles, BroadcastReturns, BroadcastRejected, PaymentIncluded, PaymentDropped,
           Settled, DeliveryVerified, BundlesComplete, Throws, Aborted, Reconciled,
           FinalCheckFails, Accepted, Recognised, RecoverySucceeds, RecoveryFails, At
    <3> USE <3>1
    <3>2. CASE Negotiated \/ VetConfirmed \/ BroadcastReturns \/ DeliveryVerified \/ Reconciled
      <4>1. /\ [job[active] EXCEPT !.session = "committed"] \in Job
            /\ [job[active] EXCEPT !.settling = TRUE, !.session = "settling"] \in Job
            /\ [job[active] EXCEPT !.preview = TRUE, !.fin = "running", !.attempts = 1] \in Job
            /\ [job[active] EXCEPT !.session = "finalised"] \in Job
        <5> DEFINE r == job[active]
        <5>1. r \in Job
          OBVIOUS
        <5> HIDE DEF r
        <5> DEFINE q == [r EXCEPT !.settling = TRUE]
                   p == [r EXCEPT !.preview = TRUE]
                   f == [p EXCEPT !.fin = "running"]
        <5>2. [r EXCEPT !.session = "committed"] \in Job
          BY <5>1 DEF Job
        <5>3. [r EXCEPT !.session = "finalised"] \in Job
          BY <5>1 DEF Job
        <5>4. q \in Job
          BY <5>1 DEF Job
        <5>5. p \in Job
          BY <5>1 DEF Job
        <5> HIDE DEF q, p
        <5>6. f \in Job
          BY <5>5 DEF Job
        <5> HIDE DEF f
        <5>7. [q EXCEPT !.session = "settling"] \in Job
          BY <5>4 DEF Job
        <5>8. [f EXCEPT !.attempts = 1] \in Job
          BY <5>6 DEF Job
        <5> QED
          BY <5>2, <5>3, <5>7, <5>8 DEF r, q, p, f
      <4>2. [job[active] EXCEPT !.tx = attempt] \in Job
        BY DEF Job, TypeOK
      <4>3. chain' = chain
        BY <3>2 DEF Negotiated, VetConfirmed, BroadcastReturns, DeliveryVerified, Reconciled
      <4>4. \E t \in Stages, r \in Job : Goto(t, r)
        <5>1. CASE Negotiated \/ VetConfirmed
          BY <4>1, <5>1 DEF Negotiated, VetConfirmed, Stages
        <5>2. CASE BroadcastReturns
          BY <4>2, <5>2 DEF BroadcastReturns, Stages
        <5>3. CASE DeliveryVerified \/ Reconciled
          BY <4>1, <5>3 DEF DeliveryVerified, Reconciled, Stages
        <5> QED
          BY <3>2, <5>1, <5>2, <5>3
      <4> QED
        BY <4>3, <4>4, GotoTyped DEF TypeOK
    <3>3. CASE NodeAccepts \/ FacilitatorSettles \/ PaymentIncluded \/ Settled \/ BundlesComplete
      <4>1. /\ sent' \in [Jobs -> SUBSET Txs] /\ paid' \in [Jobs -> SUBSET Txs]
            /\ bundles' = bundles
        BY <3>3 DEF NodeAccepts, FacilitatorSettles, PaymentIncluded, Settled, BundlesComplete, TypeOK
      <4>2. \E t \in Stages : Goto(t, job[active])
        BY <3>3 DEF NodeAccepts, FacilitatorSettles, PaymentIncluded, Settled, BundlesComplete, Stages
      <4> QED
        BY <4>1, <4>2, GotoTyped DEF TypeOK
    <3>4. CASE BroadcastRejected \/ PaymentDropped
      <4>1. attempt < MaxBroadcasts => attempt + 1 \in Txs
        BY DEF TypeOK, Txs
      <4> QED
        BY <3>4, <4>1 DEF BroadcastRejected, PaymentDropped, NextAttempt, TypeOK, Stages
    <3>5. CASE Throws
      <4>1. PICK fin \in {"none", "running", "failed", "complete"} :
              Goto("abort", [job[active] EXCEPT !.fin = fin])
        BY <3>5 DEF Throws, Job
      <4>2. [job[active] EXCEPT !.fin = fin] \in Job
        BY DEF Job
      <4>3. chain' = chain
        BY <3>5 DEF Throws
      <4> QED
        BY <4>1, <4>2, <4>3, GotoTyped DEF TypeOK, Stages
    <3>6. CASE NegotiationFails \/ Aborted \/ FinalCheckFails \/ Accepted
      <4>1. \A f \in {"none", "running", "failed", "complete"} : [job[active] EXCEPT !.fin = f] \in Job
        BY DEF Job
      <4>2. job[active].fin \in {"none", "running", "failed", "complete"}
        BY DEF Job
      <4>3. \E r \in Job : Leave(r)
        <5>1. CASE NegotiationFails
          BY <5>1, FailedTyped DEF NegotiationFails
        <5>2. CASE Accepted
          BY <5>2, CompletedTyped DEF Accepted
        <5>3. CASE Aborted
          <6>1. [job[active] EXCEPT !.fin = IF @ = "running" THEN "failed" ELSE @] \in Job
            BY <4>1, <4>2
          <6> QED
            BY <5>3, <6>1, FailedTyped DEF Aborted
        <5>4. CASE FinalCheckFails
          <6>1. [job[active] EXCEPT !.fin = IF job[active].profile = "fixed" THEN "failed" ELSE @] \in Job
            BY <4>1, <4>2
          <6> QED
            BY <5>4, <6>1, FailedTyped DEF FinalCheckFails
        <5> QED
          BY <3>6, <5>1, <5>2, <5>3, <5>4
      <4>4. /\ timers' = timers /\ sent' = sent /\ paid' = paid
            /\ bundles' \in [Jobs -> SUBSET {"buyer", "seller", "abort", "recovery"}]
        BY <3>6 DEF NegotiationFails, Aborted, FinalCheckFails, Accepted, TypeOK
      <4> QED
        BY <4>3, <4>4, LeaveTyped DEF TypeOK
    <3>7. CASE RecoverySucceeds
      <4>1. [Completed(job[active]) EXCEPT !.recovery = "complete"] \in Job
        BY CompletedTyped DEF Job
      <4> QED
        BY <3>7, <4>1, LeaveTyped DEF RecoverySucceeds, TypeOK
    <3>8. ASSUME NEW transient \in BOOLEAN, RecoveryFails(transient) PROVE TypeOK'
      <4> DEFINE f == IF job[active].fin = "none" THEN "none" ELSE "failed"
                 r == [job[active] EXCEPT !.status = "failed", !.unpaid = FALSE,
                                          !.recovery = "failed", !.fin = f]
      <4>0. f \in {"none", "failed"}
        OBVIOUS
      <4>a. /\ Leave(r) \/ Leave([r EXCEPT !.fin = "running"])
            /\ timers' \subseteq Jobs /\ chain' = chain
        BY <3>8 DEF RecoveryFails, TypeOK
      <4> HIDE DEF f
      <4>1. r \in Job
        BY <4>0 DEF Job
      <4> HIDE DEF r
      <4>b. [r EXCEPT !.fin = "running"] \in Job
        BY <4>1 DEF Job
      <4>2. (\E s \in Job : Leave(s)) /\ timers' \subseteq Jobs /\ chain' = chain
        BY <4>a, <4>1, <4>b
      <4> QED
        BY <4>2, LeaveTyped DEF TypeOK
    <3> QED
      BY <2>5, <3>2, <3>3, <3>4, <3>5, <3>6, <3>7, <3>8 DEF Lane
  <2>6. ASSUME Restart PROVE TypeOK'
    <3>1. \A j \in Jobs : Loaded(job[j]) \in Job
      BY LoadedTyped DEF TypeOK
    <3>2. job' \in [Jobs -> Job]
      BY <2>6, <3>1 DEF Restart
    <3>3. \A k \in Keys : Rebuilt(k) \in Jobs \cup {None}
      BY DEF Rebuilt
    <3>4. index' \in [Keys -> Jobs \cup {None}]
      BY <2>6, <3>3 DEF Restart
    <3>5. 1 \in Txs /\ "idle" \in Stages
      BY DEF Txs, Stages
    <3> QED
      BY <2>6, <3>2, <3>4, <3>5 DEF Restart, CountedStarts, TypeOK
  <2>7. ASSUME NEW j \in Jobs,
               HourPasses(j) \/ SellerAnchorsBundle(j) \/ \E n \in Txs : Include(j, n) \/ Drop(j, n)
        PROVE  TypeOK'
    <3>1. CASE HourPasses(j)
      BY <3>1 DEF HourPasses, TypeOK
    <3>2. CASE SellerAnchorsBundle(j)
      BY <3>2 DEF SellerAnchorsBundle, TypeOK
    <3>3. ASSUME NEW n \in Txs, Include(j, n) \/ Drop(j, n) PROVE TypeOK'
      BY <3>3 DEF Include, Drop, TypeOK
    <3> QED
      BY <2>7, <3>1, <3>2, <3>3
  <2>8. ASSUME BuyerAnchorsBundle PROVE TypeOK'
    BY <2>8 DEF BuyerAnchorsBundle, TypeOK
  <2>9. CASE UNCHANGED vars
    BY <2>9 DEF vars, TypeOK
  <2> QED
    BY <2>1, <2>4, <2>5, <2>6, <2>7, <2>8, <2>9 DEF Next, Process, Environment, TypeOK
<1> QED
  BY <1>1, <1>2, PTL DEF Spec

-----------------------------------------------------------------------------
(* The inductive invariant *)

(* What a record says of its payment is consistent.                        *)
RecordFine(r) ==
  /\ r.status = "none" => ~r.settling
  /\ r.status = "running" => ~r.unpaid
  /\ r.unpaid => ~r.settling
  /\ r.tx # NoTx => r.settling
RecordsOK == \A j \in Jobs : RecordFine(job[j])

(* The index answers for every key that was ever used.                     *)
IndexOK == \A j \in Jobs : job[j].key # None => index[job[j].key] = j

(* A payment left only a job that recorded its settling event first.       *)
ChainOK ==
  \A j \in Jobs :
    /\ sent[j] \cup paid[j] # {} => job[j].settling
    /\ \A m, n \in sent[j] \cup paid[j] : m = n

(* The active job runs; before it pays nothing was sent, and then only the *)
(* current attempt.                                                        *)
Paying == {"pay", "accepted", "await"}
LaneOK ==
  active # None =>
    /\ job[active].status = "running"
    /\ stage \in {"negotiate", "vet"} => ~job[active].settling
    /\ stage \in Paying => job[active].settling
    /\ stage = "pay" => sent[active] \cup paid[active] = {}
    /\ stage \in {"accepted", "await"} => sent[active] \cup paid[active] \subseteq {attempt}

(* The queue holds running jobs, each once and none the active one; a job  *)
(* that waits to run has not paid.                                         *)
QueueFine(q, a, rec) ==
  /\ \A n \in 1..Len(q) :
       /\ q[n][1] # a /\ rec[q[n][1]].status = "running"
       /\ q[n][2] = "run" => ~rec[q[n][1]].settling
  /\ \A m, n \in 1..Len(q) : m # n => q[m][1] # q[n][1]
QueueOK == QueueFine(pending, active, job)

JournalInv == RecordsOK /\ IndexOK /\ ChainOK /\ LaneOK /\ QueueOK

-----------------------------------------------------------------------------
(* What the updates of a record keep.                                      *)

LEMMA ClosedKeeps ==
  ASSUME NEW r \in Job, NEW u \in BOOLEAN
  PROVE  /\ Closed(r, u).status = "failed" /\ Closed(r, u).unpaid = u
         /\ Closed(r, u).key = r.key /\ Closed(r, u).settling = r.settling
         /\ Closed(r, u).tx = r.tx
BY DEF Closed, Job

LEMMA FailedKeeps ==
  ASSUME NEW r \in Job, RecordFine(r)
  PROVE  /\ Failed(r).key = r.key /\ Failed(r).settling = r.settling
         /\ Failed(r).status = "failed" /\ RecordFine(Failed(r))
<1> DEFINE u == ~PaymentMayHaveBroadcast(r)
<1>1. u \in BOOLEAN /\ (u => ~r.settling)
  BY DEF PaymentMayHaveBroadcast
<1> HIDE DEF u
<1>2. Failed(r) = Closed(r, u)
  BY DEF Failed, u
<1> QED
  BY <1>1, <1>2, ClosedKeeps DEF RecordFine

LEMMA CompletedKeeps ==
  ASSUME NEW r \in Job
  PROVE  /\ Completed(r).status = "complete" /\ Completed(r).unpaid = r.unpaid
         /\ Completed(r).key = r.key /\ Completed(r).settling = r.settling
         /\ Completed(r).tx = r.tx
BY DEF Completed, Job

LEMMA ResumedKeeps ==
  ASSUME NEW r \in Job
  PROVE  /\ Resumed(r).status = "running" /\ Resumed(r).unpaid = r.unpaid
         /\ Resumed(r).key = r.key /\ Resumed(r).settling = r.settling
         /\ Resumed(r).tx = r.tx
BY DEF Resumed, Job

LEMMA LoadedKeeps ==
  ASSUME NEW r \in Job, RecordFine(r)
  PROVE  /\ Loaded(r).key = r.key /\ Loaded(r).settling = r.settling
         /\ RecordFine(Loaded(r)) /\ Loaded(r).status # "running"
<1> DEFINE u == r.recovery # "running" /\ ~PaymentMayHaveBroadcast(r)
           c == Closed(r, u)
<1>1. u \in BOOLEAN /\ (u => ~r.settling)
  BY DEF PaymentMayHaveBroadcast
<1> HIDE DEF u
<1>2. /\ c \in Job /\ c.status = "failed" /\ c.unpaid = u
      /\ c.key = r.key /\ c.settling = r.settling /\ c.tx = r.tx
  BY <1>1, ClosedKeeps, ClosedTyped
<1>3. Interrupted(r) = [c EXCEPT !.recovery = IF @ = "running" THEN "failed" ELSE @,
                                 !.fin = IF @ = "running" /\ ~Resumable(r) THEN "failed" ELSE @]
  BY DEF Interrupted, u
<1> HIDE DEF c
<1>4. /\ Interrupted(r).status = "failed" /\ Interrupted(r).unpaid = u
      /\ Interrupted(r).key = r.key /\ Interrupted(r).settling = r.settling
      /\ Interrupted(r).tx = r.tx
  BY <1>2, <1>3 DEF Job
<1> QED
  BY <1>1, <1>4 DEF Loaded, RecordFine

-----------------------------------------------------------------------------
(* The queue, when its head takes the lane and when a job joins it.        *)

LEMMA PumpKeeps ==
  ASSUME NEW q \in Seq(Items), NEW a, NEW rec, QueueFine(q, a, rec), Pump(q)
  PROVE  /\ QueueFine(pending', active', rec)
         /\ active' # None => /\ rec[active'].status = "running"
                              /\ stage' \in {"negotiate", "recover"}
                              /\ stage' = "negotiate" => ~rec[active'].settling
<1>1. CASE q = <<>>
  BY <1>1 DEF Pump, QueueFine
<1>2. CASE q # <<>>
  <2>1. /\ Head(q) = q[1] /\ 1 \in 1..Len(q) /\ Head(q) \in Items
        /\ \A n \in 1..Len(Tail(q)) : n + 1 \in 1..Len(q) /\ n + 1 # 1 /\ Tail(q)[n] = q[n + 1]
    BY <1>2, TailTyped
  <2>2. \A m, n \in 1..Len(Tail(q)) : m # n => m + 1 # n + 1
    OBVIOUS
  <2>3. QueueFine(Tail(q), Head(q)[1], rec)
    <3>1. ASSUME NEW n \in 1..Len(Tail(q))
          PROVE  /\ Tail(q)[n][1] # Head(q)[1] /\ rec[Tail(q)[n][1]].status = "running"
                 /\ Tail(q)[n][2] = "run" => ~rec[Tail(q)[n][1]].settling
      BY <2>1 DEF QueueFine
    <3>2. ASSUME NEW m \in 1..Len(Tail(q)), NEW n \in 1..Len(Tail(q)), m # n
          PROVE  Tail(q)[m][1] # Tail(q)[n][1]
      BY <2>1, <2>2, <3>2 DEF QueueFine
    <3> QED
      BY <3>1, <3>2 DEF QueueFine
  <2>4. Head(q)[2] # "run" => Head(q)[2] = "recover"
    BY <2>1 DEF Items
  <2>5. /\ pending' = Tail(q) /\ active' = Head(q)[1]
        /\ stage' = IF Head(q)[2] = "run" THEN "negotiate" ELSE "recover"
    BY <1>2 DEF Pump
  <2>6. rec[Head(q)[1]].status = "running" /\ (Head(q)[2] = "run" => ~rec[Head(q)[1]].settling)
    BY <2>1 DEF QueueFine
  <2> QED
    BY <2>3, <2>5, <2>6
<1> QED
  BY <1>1, <1>2

LEMMA AppendKeeps ==
  ASSUME NEW q \in Seq(Items), NEW a, NEW rec, QueueFine(q, a, rec), NEW item \in Items,
         item[1] # a, rec[item[1]].status = "running",
         item[2] = "run" => ~rec[item[1]].settling,
         \A n \in 1..Len(q) : q[n][1] # item[1]
  PROVE  QueueFine(Append(q, item), a, rec)
<1> DEFINE p == Append(q, item)
<1>1. Len(q) \in Nat /\ Len(p) = Len(q) + 1 /\ p[Len(q) + 1] = item
  OBVIOUS
<1>2. \A n \in 1..Len(p) : n = Len(q) + 1 \/ (n \in 1..Len(q) /\ p[n] = q[n])
  OBVIOUS
<1> HIDE DEF p
<1>3. ASSUME NEW n \in 1..Len(p)
      PROVE  /\ p[n][1] # a /\ rec[p[n][1]].status = "running"
             /\ p[n][2] = "run" => ~rec[p[n][1]].settling
  BY <1>1, <1>2 DEF QueueFine
<1>4. ASSUME NEW m \in 1..Len(p), NEW n \in 1..Len(p), m # n PROVE p[m][1] # p[n][1]
  BY <1>1, <1>2, <1>4 DEF QueueFine
<1> QED
  BY <1>3, <1>4 DEF QueueFine, p

-----------------------------------------------------------------------------
(* The three shapes of a step: the active job moves on, it leaves the      *)
(* lane, another job joins the queue.                                      *)

LEMMA GotoKeeps ==
  ASSUME TypeOK, JournalInv, active # None, NEW t, NEW r \in Job, Goto(t, r),
         RecordFine(r), r.key = job[active].key, r.status = job[active].status,
         job[active].settling => r.settling
  PROVE  /\ RecordsOK' /\ IndexOK' /\ QueueOK'
         /\ active' = active /\ attempt' = attempt /\ stage' = t /\ active \in Jobs
         /\ job'[active] = r /\ \A j \in Jobs : j # active => job'[j] = job[j]
         /\ job'[active'].status = "running"
<1>1. active \in Jobs
  BY DEF TypeOK
<1>2. /\ active' = active /\ stage' = t /\ job' = [job EXCEPT ![active] = r]
      /\ attempt' = attempt /\ pending' = pending /\ index' = index
  BY DEF Goto
<1>3. job'[active] = r /\ \A j \in Jobs : j # active => job'[j] = job[j]
  BY <1>1, <1>2 DEF TypeOK
<1>4. RecordsOK' /\ IndexOK'
  BY <1>1, <1>2, <1>3 DEF JournalInv, RecordsOK, IndexOK, RecordFine
<1>5. \A n \in 1..Len(pending) : pending[n][1] \in Jobs
  BY DEF TypeOK
<1>6. QueueOK'
  BY <1>2, <1>3, <1>5 DEF JournalInv, QueueOK, QueueFine
<1> QED
  BY <1>1, <1>2, <1>3, <1>4, <1>6 DEF JournalInv, LaneOK

LEMMA LeaveKeeps ==
  ASSUME TypeOK, JournalInv, active # None, NEW r \in Job, Leave(r), sent' = sent, paid' = paid,
         RecordFine(r), r.key = job[active].key, job[active].settling => r.settling
  PROVE  JournalInv'
<1>1. active \in Jobs /\ pending \in Seq(Items)
  BY DEF TypeOK, Items
<1>2. job' = [job EXCEPT ![active] = r] /\ index' = index /\ Pump(pending)
  BY DEF Leave
<1>3. job'[active] = r /\ \A j \in Jobs : j # active => job'[j] = job[j]
  BY <1>1, <1>2 DEF TypeOK
<1>4. RecordsOK' /\ IndexOK'
  BY <1>1, <1>2, <1>3 DEF JournalInv, RecordsOK, IndexOK, RecordFine
<1>5. ChainOK'
  BY <1>1, <1>3 DEF JournalInv, ChainOK
<1>6. QueueFine(pending, active, job')
  <2>1. \A n \in 1..Len(pending) : pending[n][1] \in Jobs
    BY <1>1 DEF Items
  <2> QED
    BY <1>3, <2>1 DEF JournalInv, QueueOK, QueueFine
<1>7. /\ QueueFine(pending', active', job')
      /\ active' # None => /\ job'[active'].status = "running"
                           /\ stage' \in {"negotiate", "recover"}
                           /\ stage' = "negotiate" => ~job'[active'].settling
  BY <1>1, <1>2, <1>6, PumpKeeps
<1>8. LaneOK'
  BY <1>7 DEF LaneOK, Paying
<1> QED
  BY <1>4, <1>5, <1>7, <1>8 DEF JournalInv, QueueOK

LEMMA EnqueueKeeps ==
  ASSUME TypeOK, JournalInv, NEW j \in Jobs, NEW r \in Job, NEW kind \in {"run", "recover"},
         job[j].status # "running", r.status = "running", RecordFine(r),
         kind = "run" => ~r.settling, job[j].settling => r.settling,
         job' = [job EXCEPT ![j] = r], Enqueue(<<j, kind>>), sent' = sent, paid' = paid
  PROVE  RecordsOK' /\ ChainOK' /\ LaneOK' /\ QueueOK'
<1> DEFINE item == <<j, kind>>
<1>1. /\ item \in Items /\ item[1] = j /\ item[2] = kind /\ pending \in Seq(Items)
      /\ Append(pending, item) \in Seq(Items)
  BY DEF TypeOK, Items
<1>2. job'[j] = r /\ \A i \in Jobs : i # j => job'[i] = job[i]
  BY DEF TypeOK
<1>3. RecordsOK' /\ ChainOK'
  BY <1>2 DEF JournalInv, RecordsOK, ChainOK, RecordFine
<1>4. \A n \in 1..Len(pending) : pending[n][1] \in Jobs /\ pending[n][1] # j
  BY <1>1 DEF Items, JournalInv, QueueOK, QueueFine
<1>5. j # active
  BY JobsAssumption DEF JournalInv, LaneOK
<1>6. QueueFine(pending, active, job')
  BY <1>2, <1>4 DEF JournalInv, QueueOK, QueueFine
<1>7. QueueFine(Append(pending, item), active, job')
  <2>1. item[1] # active /\ job'[item[1]].status = "running" /\ (item[2] = "run" => ~job'[item[1]].settling)
    BY <1>1, <1>2, <1>5
  <2>2. \A n \in 1..Len(pending) : pending[n][1] # item[1]
    BY <1>1, <1>4
  <2> HIDE DEF item
  <2> QED
    BY <1>1, <1>6, <2>1, <2>2, AppendKeeps
<1>8. Enqueue(item)
  OBVIOUS
<1> HIDE DEF item
<1>9. CASE active = None
  <2>1. Pump(Append(pending, item))
    BY <1>8, <1>9 DEF Enqueue
  <2>2. /\ QueueFine(pending', active', job')
        /\ active' # None => /\ job'[active'].status = "running"
                             /\ stage' \in {"negotiate", "recover"}
                             /\ stage' = "negotiate" => ~job'[active'].settling
    BY <1>1, <1>7, <2>1, PumpKeeps
  <2>3. LaneOK'
    BY <2>2 DEF LaneOK, Paying
  <2> QED
    BY <1>3, <2>2, <2>3 DEF QueueOK
<1>10. CASE active # None
  <2>1. /\ pending' = Append(pending, item) /\ active' = active /\ stage' = stage
        /\ attempt' = attempt
    BY <1>8, <1>10 DEF Enqueue
  <2>2. active \in Jobs /\ job'[active] = job[active]
    BY <1>2, <1>5, <1>10 DEF TypeOK
  <2>3. LaneOK'
    BY <2>1, <2>2 DEF JournalInv, LaneOK
  <2> QED
    BY <1>3, <1>7, <2>1, <2>3 DEF QueueOK
<1> QED
  BY <1>9, <1>10

(* A step that changes nothing the invariant looks at.                     *)
LEMMA SameKeeps ==
  ASSUME TypeOK, JournalInv,
         UNCHANGED <<index, active, pending, stage, attempt, sent, paid>>,
         \A j \in Jobs : /\ job'[j].status = job[j].status /\ job'[j].key = job[j].key
                         /\ job'[j].settling = job[j].settling /\ job'[j].tx = job[j].tx
                         /\ job'[j].unpaid = job[j].unpaid
  PROVE  JournalInv'
<1>1. RecordsOK' /\ IndexOK' /\ ChainOK'
  BY DEF JournalInv, RecordsOK, RecordFine, IndexOK, ChainOK
<1>2. LaneOK'
  BY DEF JournalInv, LaneOK, TypeOK
<1>3. \A n \in 1..Len(pending) : pending[n][1] \in Jobs
  BY DEF TypeOK
<1>4. QueueOK'
  BY <1>3 DEF JournalInv, QueueOK, QueueFine
<1> QED
  BY <1>1, <1>2, <1>4 DEF JournalInv

-----------------------------------------------------------------------------
LEMMA JournalInvariant == Spec => []JournalInv
<1> USE JobsAssumption
<1>1. Init => JournalInv
  BY DEF Init, NoJob, NoTx, JournalInv, RecordsOK, RecordFine, IndexOK, ChainOK, LaneOK,
     QueueOK, QueueFine
<1>2. TypeOK /\ JournalInv /\ [Next]_vars => JournalInv'
  <2> SUFFICES ASSUME TypeOK, JournalInv, [Next]_vars PROVE JournalInv'
    OBVIOUS
  <2> USE DEF volatile, chain
  <2>a. ASSUME NEW j \in Jobs PROVE job[j] \in Job /\ RecordFine(job[j])
    BY DEF TypeOK, JournalInv, RecordsOK
  <2>1. ASSUME NEW j \in Jobs, NEW k \in Keys \cup {None}, NEW rail \in Rails, NEW profile \in Profiles,
               StartRequest(j, k, rail, profile)
        PROVE  JournalInv'
    <3> DEFINE r == [NoJob EXCEPT !.status = "running", !.key = k, !.rail = rail, !.profile = profile]
    <3>1. /\ r \in Job /\ r.status = "running" /\ r.key = k /\ r.settling = FALSE
          /\ r.unpaid = FALSE /\ r.tx = NoTx
      BY NoJobTyped DEF Job, NoJob
    <3>2. /\ job[j].status = "none" /\ (k # None => index[k] = None)
          /\ job' = [job EXCEPT ![j] = r] /\ Enqueue(<<j, "run">>)
          /\ index' = (IF k = None THEN index ELSE [index EXCEPT ![k] = j])
          /\ sent' = sent /\ paid' = paid
      BY <2>1 DEF StartRequest
    <3> HIDE DEF r
    <3>3. ~job[j].settling
      BY <2>a, <3>2 DEF RecordFine
    <3>4. RecordFine(r)
      BY <3>1 DEF RecordFine
    <3>5. RecordsOK' /\ ChainOK' /\ LaneOK' /\ QueueOK'
      BY <3>1, <3>2, <3>3, <3>4, EnqueueKeeps
    <3>6. IndexOK'
      <4> SUFFICES ASSUME NEW i \in Jobs, job'[i].key # None PROVE index'[job'[i].key] = i
        BY DEF IndexOK
      <4>1. CASE i = j
        BY <3>1, <3>2, <4>1 DEF TypeOK
      <4>2. CASE i # j
        <5>1. job'[i] = job[i] /\ index[job[i].key] = i /\ job[i].key \in Keys
          BY <2>a, <3>2, <4>2 DEF TypeOK, JournalInv, IndexOK, Job
        <5>2. job[i].key # k
          BY <3>2, <5>1
        <5> QED
          BY <3>2, <5>1, <5>2 DEF TypeOK
      <4> QED
        BY <4>1, <4>2
    <3> QED
      BY <3>5, <3>6 DEF JournalInv
  <2>2. ASSUME NEW j \in Jobs, MayResume(j), Resume(j), index' = index, sent' = sent, paid' = paid
        PROVE  JournalInv'
    <3> DEFINE r == Resumed(job[j])
    <3>1. job[j].status = "failed" /\ job[j].tx # NoTx
      BY <2>2 DEF MayResume, Recoverable
    <3>2. /\ r \in Job /\ r.status = "running" /\ r.unpaid = job[j].unpaid /\ r.key = job[j].key
          /\ r.settling = job[j].settling /\ r.tx = job[j].tx
      BY <2>a, ResumedTyped, ResumedKeeps
    <3>3. job' = [job EXCEPT ![j] = r] /\ Enqueue(<<j, "recover">>)
      BY <2>2 DEF Resume
    <3> HIDE DEF r
    <3>4. RecordFine(r)
      BY <2>a, <3>1, <3>2 DEF RecordFine
    <3>5. RecordsOK' /\ ChainOK' /\ LaneOK' /\ QueueOK'
      BY <2>2, <3>1, <3>2, <3>3, <3>4, EnqueueKeeps
    <3>6. IndexOK'
      BY <2>2, <3>2, <3>3 DEF JournalInv, IndexOK, TypeOK
    <3> QED
      BY <3>5, <3>6 DEF JournalInv
  <2>3. ASSUME NEW j \in Jobs, SelfResume(j), index' = index, sent' = sent, paid' = paid
        PROVE  JournalInv'
    <3>1. CASE MayResume(j)
      BY <2>2, <2>3, <3>1 DEF SelfResume
    <3>2. CASE ~MayResume(j)
      <4>1. /\ job' = [job EXCEPT ![j] = [job[j] EXCEPT !.fin = "failed"]]
            /\ UNCHANGED <<active, pending, stage, attempt>>
        BY <2>3, <3>2 DEF SelfResume, TypeOK
      <4>2. \A i \in Jobs : /\ job'[i].status = job[i].status /\ job'[i].key = job[i].key
                            /\ job'[i].settling = job[i].settling /\ job'[i].tx = job[i].tx
                            /\ job'[i].unpaid = job[i].unpaid
        <5> DEFINE r == job[j]
                   x == [r EXCEPT !.fin = "failed"]
        <5>1. r \in Job /\ job \in [Jobs -> Job]
          BY <2>a DEF TypeOK
        <5>2. job' = [job EXCEPT ![j] = x]
          BY <4>1
        <5> HIDE DEF r
        <5>3. /\ x.status = r.status /\ x.key = r.key /\ x.settling = r.settling /\ x.tx = r.tx
              /\ x.unpaid = r.unpaid
          BY <5>1 DEF Job
        <5> HIDE DEF x
        <5> QED
          BY <5>1, <5>2, <5>3 DEF r
      <4> QED
        BY <2>3, <4>1, <4>2, SameKeeps
    <3> QED
      BY <3>1, <3>2
  <2>4. ASSUME NEW j \in Jobs, Recover(j) \/ TimerFires(j) \/ BootResume(j) PROVE JournalInv'
    <3>1. CASE Recover(j)
      BY <2>2, <3>1 DEF Recover
    <3>2. CASE TimerFires(j)
      <4>1. CASE job[j].status = "failed" /\ job[j].fin = "running"
        BY <2>3, <3>2, <4>1 DEF TimerFires
      <4>2. CASE ~(job[j].status = "failed" /\ job[j].fin = "running")
        BY <3>2, <4>2, SameKeeps DEF TimerFires
      <4> QED
        BY <4>1, <4>2
    <3>3. CASE BootResume(j)
      BY <2>3, <3>3 DEF BootResume
    <3> QED
      BY <2>4, <3>1, <3>2, <3>3
  <2>5. ASSUME Lane PROVE JournalInv'
    <3>1. active \in Jobs /\ active # None /\ job[active] \in Job /\ RecordFine(job[active])
      <4>1. active # None
        BY <2>5 DEF Lane, Negotiated, NegotiationFails, VetConfirmed, NodeAccepts,
           FacilitatorSettles, BroadcastReturns, BroadcastRejected, PaymentIncluded, PaymentDropped,
           Settled, DeliveryVerified, BundlesComplete, Throws, Aborted, Reconciled,
           FinalCheckFails, Accepted, Recognised, RecoverySucceeds, RecoveryFails, At
      <4> QED
        BY <2>a, <4>1 DEF TypeOK
    <3> USE <3>1
    <3> DEFINE r0 == job[active]
    <3>2. r0.status = "running" /\ ~r0.unpaid
      BY DEF JournalInv, LaneOK, RecordFine
    <3>3. CASE Negotiated
      <4> DEFINE r == [r0 EXCEPT !.session = "committed"]
      <4>1. /\ r \in Job /\ r.key = r0.key /\ r.status = r0.status /\ r.settling = r0.settling
            /\ r.unpaid = r0.unpaid /\ r.tx = r0.tx
        BY DEF Job
      <4>2. Goto("vet", r) /\ stage = "negotiate" /\ sent' = sent /\ paid' = paid
        BY <3>3 DEF Negotiated, At
      <4> HIDE DEF r
      <4>3. RecordFine(r)
        BY <4>1 DEF RecordFine
      <4>4. /\ RecordsOK' /\ IndexOK' /\ QueueOK' /\ active' = active /\ stage' = "vet"
            /\ job'[active] = r /\ \A j \in Jobs : j # active => job'[j] = job[j]
        BY <4>1, <4>2, <4>3, GotoKeeps
      <4>5. ChainOK' /\ LaneOK'
        BY <3>2, <4>1, <4>2, <4>4 DEF JournalInv, ChainOK, LaneOK, Paying
      <4> QED
        BY <4>4, <4>5 DEF JournalInv
    <3>4. CASE VetConfirmed
      <4> DEFINE r == [r0 EXCEPT !.settling = TRUE, !.session = "settling"]
      <4>1. /\ r \in Job /\ r.key = r0.key /\ r.status = r0.status /\ r.settling
            /\ r.unpaid = r0.unpaid /\ r.tx = r0.tx
        BY DEF Job
      <4>2. Goto("pay", r) /\ stage = "vet" /\ sent' = sent /\ paid' = paid
        BY <3>4 DEF VetConfirmed, At
      <4> HIDE DEF r
      <4>3. RecordFine(r)
        BY <3>2, <4>1 DEF RecordFine
      <4>4. /\ RecordsOK' /\ IndexOK' /\ QueueOK' /\ active' = active /\ stage' = "pay"
            /\ job'[active] = r /\ \A j \in Jobs : j # active => job'[j] = job[j]
        BY <4>1, <4>2, <4>3, GotoKeeps
      <4>5. sent[active] \cup paid[active] = {}
        BY <4>2 DEF JournalInv, LaneOK, ChainOK
      <4>6. ChainOK' /\ LaneOK'
        BY <3>2, <4>1, <4>2, <4>4, <4>5 DEF JournalInv, ChainOK, LaneOK, Paying
      <4> QED
        BY <4>4, <4>6 DEF JournalInv
    <3>5. CASE NodeAccepts \/ FacilitatorSettles
      <4>1. /\ Goto("accepted", r0) /\ stage = "pay"
            /\ \A j \in Jobs : j # active => sent'[j] = sent[j] /\ paid'[j] = paid[j]
            /\ sent'[active] \cup paid'[active] \subseteq sent[active] \cup paid[active] \cup {attempt}
        BY <3>5 DEF NodeAccepts, FacilitatorSettles, At, TypeOK
      <4>2. /\ RecordsOK' /\ IndexOK' /\ QueueOK' /\ active' = active /\ stage' = "accepted"
            /\ attempt' = attempt
            /\ job'[active] = r0 /\ \A j \in Jobs : j # active => job'[j] = job[j]
        BY <4>1, GotoKeeps
      <4>3. sent'[active] \cup paid'[active] \subseteq {attempt} /\ r0.settling
        BY <4>1 DEF JournalInv, LaneOK, Paying
      <4>4. ChainOK'
        BY <4>1, <4>2, <4>3 DEF JournalInv, ChainOK
      <4>5. LaneOK'
        BY <3>2, <4>2, <4>3 DEF LaneOK
      <4> QED
        BY <4>2, <4>4, <4>5 DEF JournalInv
    <3>6. CASE BroadcastReturns
      <4> DEFINE r == [r0 EXCEPT !.tx = attempt]
      <4>1. /\ r \in Job /\ r.key = r0.key /\ r.status = r0.status /\ r.settling = r0.settling
            /\ r.unpaid = r0.unpaid
        BY DEF Job, TypeOK
      <4>2. /\ (Goto("await", r) \/ Goto("settle", r0))
            /\ sent' = sent /\ paid' = paid /\ stage = "accepted"
        BY <3>6 DEF BroadcastReturns, At
      <4>3. r0.settling /\ sent[active] \cup paid[active] \subseteq {attempt}
        BY <4>2 DEF JournalInv, LaneOK, Paying
      <4> HIDE DEF r
      <4>4. RecordFine(r)
        BY <3>2, <4>1, <4>3 DEF RecordFine
      <4>5. CASE Goto("await", r)
        <5>1. /\ RecordsOK' /\ IndexOK' /\ QueueOK' /\ active' = active /\ stage' = "await"
              /\ attempt' = attempt
              /\ job'[active] = r /\ \A j \in Jobs : j # active => job'[j] = job[j]
          BY <4>1, <4>4, <4>5, GotoKeeps
        <5>2. ChainOK'
          BY <4>1, <4>2, <4>3, <5>1 DEF JournalInv, ChainOK
        <5>3. LaneOK'
          BY <3>2, <4>1, <4>2, <4>3, <5>1 DEF LaneOK
        <5> QED
          BY <5>1, <5>2, <5>3 DEF JournalInv
      <4>6. CASE Goto("settle", r0)
        <5>1. /\ RecordsOK' /\ IndexOK' /\ QueueOK' /\ active' = active /\ stage' = "settle"
              /\ job'[active] = r0 /\ \A j \in Jobs : j # active => job'[j] = job[j]
          BY <4>6, GotoKeeps
        <5>2. ChainOK'
          BY <4>2, <4>3, <5>1 DEF JournalInv, ChainOK
        <5>3. LaneOK'
          BY <3>2, <4>2, <4>3, <5>1 DEF LaneOK
        <5> QED
          BY <5>1, <5>2, <5>3 DEF JournalInv
      <4> QED
        BY <4>2, <4>5, <4>6
    <3>7. CASE BroadcastRejected \/ PaymentDropped
      <4>1. /\ NextAttempt /\ stage \in {"pay", "await"}
            /\ stage = "await" => attempt \notin sent[active] \cup paid[active]
        BY <3>7 DEF BroadcastRejected, PaymentDropped, At
      <4>2. sent[active] \cup paid[active] = {} /\ r0.settling
        BY <4>1 DEF JournalInv, LaneOK, Paying
      <4>3. /\ UNCHANGED <<job, index, active, pending, sent, paid>>
            /\ stage' \in {"pay", "abort"}
        BY <4>1 DEF NextAttempt
      <4>4. RecordsOK' /\ IndexOK' /\ ChainOK' /\ QueueOK'
        BY <4>3 DEF JournalInv, RecordsOK, IndexOK, ChainOK, QueueOK, QueueFine, RecordFine
      <4>5. LaneOK'
        BY <3>2, <4>2, <4>3 DEF LaneOK, Paying
      <4> QED
        BY <4>4, <4>5 DEF JournalInv
    <3>8. CASE PaymentIncluded \/ Settled \/ BundlesComplete \/ DeliveryVerified \/ Reconciled \/ Throws
      <4>1. PICK r \in Job, t \in Stages :
              /\ Goto(t, r) /\ t \notin Paying \cup {"negotiate", "vet"}
              /\ r.key = r0.key /\ r.status = r0.status /\ r.settling = r0.settling
              /\ r.unpaid = r0.unpaid /\ r.tx = r0.tx
        <5>1. CASE PaymentIncluded \/ Settled \/ BundlesComplete
          BY <5>1 DEF PaymentIncluded, Settled, BundlesComplete, Stages, Paying
        <5>2. CASE DeliveryVerified
          <6> DEFINE s == [r0 EXCEPT !.preview = TRUE, !.fin = "running", !.attempts = 1]
          <6>1. /\ s \in Job /\ s.key = r0.key /\ s.status = r0.status /\ s.settling = r0.settling
                /\ s.unpaid = r0.unpaid /\ s.tx = r0.tx
            BY DEF Job
          <6>2. Goto("finalise", s)
            BY <5>2 DEF DeliveryVerified
          <6> QED
            BY <6>1, <6>2 DEF Stages, Paying
        <5>3. CASE Reconciled
          <6> DEFINE s == [r0 EXCEPT !.session = "finalised"]
          <6>1. /\ s \in Job /\ s.key = r0.key /\ s.status = r0.status /\ s.settling = r0.settling
                /\ s.unpaid = r0.unpaid /\ s.tx = r0.tx
            BY DEF Job
          <6>2. Goto("accept", s)
            BY <5>3 DEF Reconciled
          <6> QED
            BY <6>1, <6>2 DEF Stages, Paying
        <5>4. CASE Throws
          <6>1. PICK fin \in {"none", "running", "failed", "complete"} :
                  Goto("abort", [r0 EXCEPT !.fin = fin])
            BY <5>4 DEF Throws, Job
          <6> DEFINE s == [r0 EXCEPT !.fin = fin]
          <6>2. /\ s \in Job /\ s.key = r0.key /\ s.status = r0.status /\ s.settling = r0.settling
                /\ s.unpaid = r0.unpaid /\ s.tx = r0.tx
            BY DEF Job
          <6> QED
            BY <6>1, <6>2 DEF Stages, Paying
        <5> QED
          BY <3>8, <5>1, <5>2, <5>3, <5>4
      <4>2. sent' = sent /\ paid' = paid
        BY <3>8 DEF PaymentIncluded, Settled, BundlesComplete, DeliveryVerified, Reconciled, Throws
      <4>3. RecordFine(r)
        BY <4>1 DEF RecordFine
      <4>4. /\ RecordsOK' /\ IndexOK' /\ QueueOK' /\ active' = active /\ stage' = t
            /\ job'[active] = r /\ \A j \in Jobs : j # active => job'[j] = job[j]
        BY <4>1, <4>3, GotoKeeps
      <4>5. ChainOK' /\ LaneOK'
        BY <3>2, <4>1, <4>2, <4>4 DEF JournalInv, ChainOK, LaneOK, Paying
      <4> QED
        BY <4>4, <4>5 DEF JournalInv
    <3>9. CASE NegotiationFails \/ Aborted \/ FinalCheckFails
      <4>1. PICK s \in Job : /\ Leave(Failed(s)) /\ s.key = r0.key /\ s.status = r0.status
                             /\ s.settling = r0.settling /\ s.unpaid = r0.unpaid /\ s.tx = r0.tx
        <5>1. ASSUME NEW f \in {"none", "running", "failed", "complete"}
              PROVE  LET s == [r0 EXCEPT !.fin = f] IN
                     /\ s \in Job /\ s.key = r0.key /\ s.status = r0.status
                     /\ s.settling = r0.settling /\ s.unpaid = r0.unpaid /\ s.tx = r0.tx
          BY DEF Job
        <5>2. \/ Leave(Failed(r0))
              \/ \E f \in {"none", "running", "failed", "complete"} : Leave(Failed([r0 EXCEPT !.fin = f]))
          <6>1. r0.fin \in {"none", "running", "failed", "complete"}
            BY DEF Job
          <6> QED
            BY <3>9, <6>1 DEF NegotiationFails, Aborted, FinalCheckFails
        <5> QED
          BY <5>1, <5>2
      <4>2. RecordFine(s)
        BY <4>1 DEF RecordFine
      <4>3. sent' = sent /\ paid' = paid
        BY <3>9 DEF NegotiationFails, Aborted, FinalCheckFails
      <4> QED
        BY <4>1, <4>2, <4>3, FailedKeeps, FailedTyped, LeaveKeeps
    <3>10. CASE Accepted \/ RecoverySucceeds
      <4> DEFINE c == Completed(r0)
                 s == [c EXCEPT !.recovery = "complete"]
      <4>1. /\ c \in Job /\ c.status = "complete" /\ c.unpaid = r0.unpaid /\ c.key = r0.key
            /\ c.settling = r0.settling /\ c.tx = r0.tx
        BY CompletedKeeps, CompletedTyped
      <4>2. (Leave(c) \/ Leave(s)) /\ sent' = sent /\ paid' = paid
        BY <3>10 DEF Accepted, RecoverySucceeds
      <4> HIDE DEF c
      <4>3. /\ s \in Job /\ s.status = "complete" /\ s.unpaid = r0.unpaid /\ s.key = r0.key
            /\ s.settling = r0.settling /\ s.tx = r0.tx
        BY <4>1 DEF Job
      <4>4. RecordFine(c) /\ RecordFine(s)
        BY <4>1, <4>3 DEF RecordFine
      <4> HIDE DEF s
      <4> QED
        BY <4>1, <4>2, <4>3, <4>4, LeaveKeeps
    <3>11. ASSUME NEW transient \in BOOLEAN, RecoveryFails(transient) PROVE JournalInv'
      <4> DEFINE f == IF r0.fin = "none" THEN "none" ELSE "failed"
                 r == [r0 EXCEPT !.status = "failed", !.unpaid = FALSE,
                                 !.recovery = "failed", !.fin = f]
                 s == [r EXCEPT !.fin = "running"]
      <4>1. (Leave(r) \/ Leave(s)) /\ sent' = sent /\ paid' = paid
        BY <3>11 DEF RecoveryFails
      <4>2. f \in {"none", "failed"}
        OBVIOUS
      <4> HIDE DEF f
      <4>3. /\ r \in Job /\ r.status = "failed" /\ r.unpaid = FALSE /\ r.key = r0.key
            /\ r.settling = r0.settling /\ r.tx = r0.tx
        <5> DEFINE q == [r0 EXCEPT !.status = "failed", !.unpaid = FALSE]
        <5>1. /\ q \in Job /\ q.status = "failed" /\ q.unpaid = FALSE /\ q.key = r0.key
              /\ q.settling = r0.settling /\ q.tx = r0.tx
          BY DEF Job
        <5> DEFINE p == [q EXCEPT !.recovery = "failed"]
        <5>2. r = [p EXCEPT !.fin = f]
          OBVIOUS
        <5> HIDE DEF q, r
        <5>3. /\ p \in Job /\ p.status = q.status /\ p.unpaid = q.unpaid /\ p.key = q.key
              /\ p.settling = q.settling /\ p.tx = q.tx
          BY <5>1 DEF Job
        <5> HIDE DEF p
        <5>4. /\ r \in Job /\ r.status = p.status /\ r.unpaid = p.unpaid /\ r.key = p.key
              /\ r.settling = p.settling /\ r.tx = p.tx
          BY <4>2, <5>2, <5>3 DEF Job
        <5> QED
          BY <5>1, <5>3, <5>4
      <4> HIDE DEF r
      <4>4. /\ s \in Job /\ s.status = "failed" /\ s.unpaid = FALSE /\ s.key = r0.key
            /\ s.settling = r0.settling /\ s.tx = r0.tx
        <5>1. /\ s \in Job /\ s.status = r.status /\ s.unpaid = r.unpaid /\ s.key = r.key
              /\ s.settling = r.settling /\ s.tx = r.tx
          BY <4>3 DEF Job
        <5> HIDE DEF s
        <5> QED
          BY <4>3, <5>1
      <4>5. RecordFine(r) /\ RecordFine(s)
        BY <4>3, <4>4 DEF RecordFine
      <4> HIDE DEF s
      <4> QED
        BY <4>1, <4>3, <4>4, <4>5, LeaveKeeps
    <3> QED
      BY <2>5, <3>3, <3>4, <3>5, <3>6, <3>7, <3>8, <3>9, <3>10, <3>11 DEF Lane
  <2>6. ASSUME Restart PROVE JournalInv'
    <3>1. /\ job' = [j \in Jobs |-> Loaded(job[j])] /\ index' = [k \in Keys |-> Rebuilt(k)]
          /\ active' = None /\ pending' = <<>> /\ sent' = sent /\ paid' = paid
      BY <2>6 DEF Restart
    <3>2. \A j \in Jobs : /\ job'[j] = Loaded(job[j]) /\ job'[j].key = job[j].key
                          /\ job'[j].settling = job[j].settling /\ RecordFine(job'[j])
      BY <2>a, <3>1, LoadedKeeps
    <3>3. RecordsOK' /\ ChainOK'
      BY <3>1, <3>2 DEF JournalInv, RecordsOK, RecordFine, ChainOK
    <3>4. IndexOK'
      <4> SUFFICES ASSUME NEW j \in Jobs, job'[j].key # None PROVE index'[job'[j].key] = j
        BY DEF IndexOK
      <4> DEFINE k == job[j].key
                 found == {i \in Jobs : job[i].key = k}
      <4>1. k \in Keys /\ k # None /\ job'[j].key = k
        BY <2>a, <3>2 DEF Job
      <4>2. found = {j}
        BY <4>1 DEF JournalInv, IndexOK
      <4>3. Rebuilt(k) = j
        BY <4>2 DEF Rebuilt
      <4> QED
        BY <3>1, <4>1, <4>3
    <3>5. LaneOK' /\ QueueOK'
      BY <3>1 DEF LaneOK, QueueOK, QueueFine
    <3> QED
      BY <3>3, <3>4, <3>5 DEF JournalInv
  <2>7. ASSUME NEW j \in Jobs, NEW n \in Txs, Include(j, n) \/ Drop(j, n) PROVE JournalInv'
    <3>1. /\ UNCHANGED <<job, index, active, pending, stage, attempt>>
          /\ \A i \in Jobs : sent'[i] \cup paid'[i] \subseteq sent[i] \cup paid[i]
      BY <2>7 DEF Include, Drop, TypeOK
    <3>2. RecordsOK' /\ IndexOK' /\ QueueOK'
      BY <3>1 DEF JournalInv, RecordsOK, RecordFine, IndexOK, QueueOK, QueueFine
    <3>3. ChainOK'
      BY <3>1 DEF JournalInv, ChainOK
    <3>4. active # None => active \in Jobs
      BY DEF TypeOK
    <3>5. LaneOK'
      BY <3>1, <3>4 DEF JournalInv, LaneOK
    <3> QED
      BY <3>2, <3>3, <3>5 DEF JournalInv
  <2>8. ASSUME BuyerAnchorsBundle \/ (\E j \in Jobs : HourPasses(j) \/ SellerAnchorsBundle(j))
               \/ UNCHANGED vars
        PROVE  JournalInv'
    <3>1. UNCHANGED <<job, index, active, pending, stage, attempt, sent, paid>>
      BY <2>8 DEF BuyerAnchorsBundle, HourPasses, SellerAnchorsBundle, vars
    <3> QED
      BY <3>1, SameKeeps
  <2> QED
    BY <2>1, <2>4, <2>5, <2>6, <2>7, <2>8 DEF Next, Process, Environment, TypeOK
<1> QED
  BY <1>1, <1>2, Typing, PTL DEF Spec

(* Of every behaviour, whatever the number of jobs, attempts, restarts and *)
(* recoveries: an idempotency key buys one job, at most one attempt of a   *)
(* job's payment is in flight or included, and a job is called unpaid only *)
(* if no payment of it ever left.                                          *)
THEOREM PaymentSafety ==
  Spec => [](OneJobPerKey /\ NoDuplicatePayment /\ UnpaidMeansUnpaid)
<1>1. TypeOK /\ JournalInv => OneJobPerKey /\ NoDuplicatePayment /\ UnpaidMeansUnpaid
  <2> SUFFICES ASSUME TypeOK, JournalInv
               PROVE  OneJobPerKey /\ NoDuplicatePayment /\ UnpaidMeansUnpaid
    OBVIOUS
  <2>1. OneJobPerKey
    BY DEF JournalInv, IndexOK, OneJobPerKey
  <2>2. NoDuplicatePayment
    BY DEF JournalInv, ChainOK, NoDuplicatePayment
  <2>3. UnpaidMeansUnpaid
    BY DEF JournalInv, ChainOK, RecordsOK, RecordFine, UnpaidMeansUnpaid
  <2> QED
    BY <2>1, <2>2, <2>3
<1> QED
  BY <1>1, Typing, JournalInvariant, PTL

(* Two jobs never answer for one idempotency key, restarts and recoveries   *)
(* included (live-procurement.ts: the idempotency index).                   *)
COROLLARY KeySafety == Spec => []OneJobPerKey
BY PaymentSafety, PTL

(* A job that is called failedBeforePayment has no payment in flight or     *)
(* included: only jobs that never reached settling are provably unpaid      *)
(* (live-procurement.ts:157).                                               *)
COROLLARY UnpaidSafety == Spec => []UnpaidMeansUnpaid
BY PaymentSafety, PTL

-----------------------------------------------------------------------------
(* The lane and what a payment becomes                                     *)

(* A running job is on the lane or waits for it, the queue keeps its       *)
(* limit, and the starts that are counted are those of the hour.           *)
Waits(j, q) == \E n \in 1..Len(q) : q[n][1] = j
BoundInv ==
  /\ \A j \in Jobs : job[j].status = "running" => j = active \/ Waits(j, pending)
  /\ Len(pending) <= QueueLimit
  /\ starts = recent /\ IsFiniteSet(recent) /\ Cardinality(recent) <= HourlyLimit

(* What a record says of its session, given the payments p and bundles b.  *)
Accounted(r, p, b) ==
  /\ r.tx # NoTx => r.session # "none"
  /\ r.session = "finalised" => {"buyer", "seller"} \subseteq b
  /\ r.status = "failed" => r.session \in {"none", "aborted", "finalised"}
  /\ r.status = "complete" => p # {} /\ "seller" \in b /\ b \cap {"buyer", "recovery"} # {}

(* How far the session of the active job is at each stage.                 *)
Abreast(s, r, p, b) ==
  /\ s \in {"negotiate", "recover"} => r.session \in {"none", "aborted"}
  /\ s = "vet" => r.session = "committed"
  /\ s \in Paying \cup {"settle", "deliver", "finalise", "check"} => r.session = "settling"
  /\ s = "abort" => r.session \in {"committed", "settling"}
  /\ s = "accept" => r.session = "finalised"
  /\ s \in {"deliver", "finalise", "check", "accept"} => p # {}
  /\ s = "check" => {"buyer", "seller"} \subseteq b

OutcomeInv ==
  /\ \A j \in Jobs : Accounted(job[j], paid[j], bundles[j])
  /\ \A j \in Jobs : job[j].status = "running" /\ j # active => job[j].session \in {"none", "aborted"}
  /\ active # None => Abreast(stage, job[active], paid[active], bundles[active])

LEMMA ClosedSession ==
  ASSUME NEW r \in Job, NEW u \in BOOLEAN
  PROVE  Closed(r, u).session = IF r.session \in {"none", "finalised"} THEN r.session ELSE "aborted"
BY DEF Closed, Job

LEMMA FailedAccounted ==
  ASSUME NEW r \in Job, NEW p, NEW b, Accounted(r, p, b)
  PROVE  /\ Failed(r) \in Job /\ Failed(r).status = "failed"
         /\ Accounted(Failed(r), p, b)
<1> DEFINE u == ~PaymentMayHaveBroadcast(r)
           c == Closed(r, u)
<1>1. u \in BOOLEAN /\ Failed(r) = c
  BY DEF Failed, PaymentMayHaveBroadcast
<1> HIDE DEF u
<1>2. /\ c \in Job /\ c.status = "failed" /\ c.tx = r.tx
      /\ c.session = IF r.session \in {"none", "finalised"} THEN r.session ELSE "aborted"
  BY <1>1, ClosedTyped, ClosedKeeps, ClosedSession
<1> HIDE DEF c
<1> QED
  BY <1>1, <1>2 DEF Accounted

LEMMA CompletedSession ==
  ASSUME NEW r \in Job PROVE Completed(r).session = r.session
BY DEF Completed, Job

LEMMA ResumedSession ==
  ASSUME NEW r \in Job PROVE Resumed(r).session = r.session
BY DEF Resumed, Job

LEMMA LoadedAccounted ==
  ASSUME NEW r \in Job, NEW p, NEW b, Accounted(r, p, b)
  PROVE  Accounted(Loaded(r), p, b) /\ Loaded(r).status # "running"
<1>1. CASE r.status # "running"
  BY <1>1 DEF Loaded
<1>2. CASE r.status = "running"
  <2> DEFINE u == r.recovery # "running" /\ ~PaymentMayHaveBroadcast(r)
             c == Closed(r, u)
  <2>1. u \in BOOLEAN
    BY DEF PaymentMayHaveBroadcast
  <2>2. Interrupted(r) = [c EXCEPT !.recovery = IF @ = "running" THEN "failed" ELSE @,
                                   !.fin = IF @ = "running" /\ ~Resumable(r) THEN "failed" ELSE @]
    BY DEF Interrupted
  <2> HIDE DEF u
  <2>3. /\ c \in Job /\ c.status = "failed" /\ c.tx = r.tx
        /\ c.session = IF r.session \in {"none", "finalised"} THEN r.session ELSE "aborted"
    BY <2>1, ClosedTyped, ClosedKeeps, ClosedSession
  <2> HIDE DEF c
  <2>4. Interrupted(r).status = c.status /\ Interrupted(r).tx = c.tx /\ Interrupted(r).session = c.session
    BY <2>2, <2>3 DEF Job
  <2> QED
    BY <1>2, <2>3, <2>4 DEF Loaded, Accounted
<1> QED
  BY <1>1, <1>2

(* What a step of the lane may do: the active job moves on or tries its    *)
(* payment again, or it leaves the lane with a record that is closed.      *)
MovesOn ==
  \E r \in Job, t \in Stages :
    /\ Goto(t, r) /\ r.status = job[active].status
    /\ Accounted(r, paid'[active], bundles'[active])
    /\ Abreast(t, r, paid'[active], bundles'[active])
TriesAgain == NextAttempt /\ stage \in {"pay", "await"}
LeavesLane ==
  \E r \in Job :
    /\ Leave(r) /\ r.status # "running"
    /\ Accounted(r, paid'[active], bundles'[active])

LEMMA LaneShapes ==
  ASSUME TypeOK, JournalInv, OutcomeInv, Lane
  PROVE  /\ active \in Jobs /\ active # None
         /\ \A j \in Jobs \ {active} : paid'[j] = paid[j] /\ bundles'[j] = bundles[j]
         /\ MovesOn \/ TriesAgain \/ LeavesLane
<1> DEFINE r0 == job[active]
           p0 == paid[active]
           b0 == bundles[active]
<1>1. active # None
  BY DEF Lane, Negotiated, NegotiationFails, VetConfirmed, NodeAccepts,
     FacilitatorSettles, BroadcastReturns, BroadcastRejected, PaymentIncluded, PaymentDropped,
     Settled, DeliveryVerified, BundlesComplete, Throws, Aborted, Reconciled,
     FinalCheckFails, Accepted, Recognised, RecoverySucceeds, RecoveryFails, At
<1>2. /\ active \in Jobs /\ r0 \in Job /\ r0.status = "running"
      /\ Accounted(r0, p0, b0) /\ Abreast(stage, r0, p0, b0)
  BY <1>1 DEF TypeOK, OutcomeInv, JournalInv, LaneOK
<1> HIDE DEF r0, p0, b0
<1> DEFINE SameChain == paid'[active] = p0 /\ bundles'[active] = b0
<1>3. UNCHANGED <<paid, bundles>> =>
        SameChain /\ \A j \in Jobs \ {active} : paid'[j] = paid[j] /\ bundles'[j] = bundles[j]
  BY DEF p0, b0
<1>4. CASE Negotiated
  <2> DEFINE r == [r0 EXCEPT !.session = "committed"]
  <2>1. Goto("vet", r) /\ UNCHANGED <<paid, bundles>>
    BY <1>4 DEF Negotiated, chain, r0
  <2>2. r \in Job /\ r.status = r0.status /\ r.tx = r0.tx /\ r.session = "committed"
    BY <1>2 DEF Job
  <2> HIDE DEF r
  <2>3. Accounted(r, p0, b0) /\ Abreast("vet", r, p0, b0)
    BY <1>2, <2>2 DEF Accounted, Abreast, Paying
  <2> QED
    BY <1>1, <1>2, <1>3, <2>1, <2>2, <2>3 DEF MovesOn, Stages, r0
<1>5. CASE VetConfirmed
  <2> DEFINE r == [r0 EXCEPT !.settling = TRUE, !.session = "settling"]
  <2>1. Goto("pay", r) /\ UNCHANGED <<paid, bundles>>
    BY <1>5 DEF VetConfirmed, chain, r0
  <2>2. r \in Job /\ r.status = r0.status /\ r.tx = r0.tx /\ r.session = "settling"
    BY <1>2 DEF Job
  <2> HIDE DEF r
  <2>3. Accounted(r, p0, b0) /\ Abreast("pay", r, p0, b0)
    BY <1>2, <2>2 DEF Accounted, Abreast, Paying
  <2> QED
    BY <1>1, <1>2, <1>3, <2>1, <2>2, <2>3 DEF MovesOn, Stages, r0
<1>6. CASE NodeAccepts
  <2>1. Goto("accepted", r0) /\ UNCHANGED <<paid, bundles>> /\ stage = "pay"
    BY <1>6 DEF NodeAccepts, At, r0
  <2>2. Abreast("accepted", r0, p0, b0)
    BY <1>2, <2>1 DEF Abreast, Paying
  <2> QED
    BY <1>1, <1>2, <1>3, <2>1, <2>2 DEF MovesOn, Stages, r0
<1>7. CASE FacilitatorSettles
  <2>1. /\ Goto("accepted", r0) /\ stage = "pay" /\ bundles' = bundles
        /\ paid' = [paid EXCEPT ![active] = {attempt}]
    BY <1>7 DEF FacilitatorSettles, At, r0
  <2>2. /\ paid'[active] = {attempt} /\ bundles'[active] = b0
        /\ \A j \in Jobs \ {active} : paid'[j] = paid[j] /\ bundles'[j] = bundles[j]
    BY <1>2, <2>1 DEF TypeOK, b0
  <2>3. Abreast("accepted", r0, {attempt}, b0) /\ Accounted(r0, {attempt}, b0)
    BY <1>2, <2>1 DEF Abreast, Accounted, Paying
  <2> QED
    BY <1>1, <1>2, <2>1, <2>2, <2>3 DEF MovesOn, Stages, r0
<1>8. CASE BroadcastReturns
  <2> DEFINE r == [r0 EXCEPT !.tx = attempt]
  <2>1. (Goto("await", r) \/ Goto("settle", r0)) /\ UNCHANGED <<paid, bundles>> /\ stage = "accepted"
    BY <1>8 DEF BroadcastReturns, At, chain, r0
  <2>2. r \in Job /\ r.status = r0.status /\ r.session = r0.session
    BY <1>2 DEF Job, TypeOK
  <2> HIDE DEF r
  <2>3. Accounted(r, p0, b0) /\ Abreast("await", r, p0, b0) /\ Abreast("settle", r0, p0, b0)
    BY <1>2, <2>1, <2>2 DEF Accounted, Abreast, Paying
  <2> QED
    BY <1>1, <1>2, <1>3, <2>1, <2>2, <2>3 DEF MovesOn, Stages, r0
<1>9. CASE BroadcastRejected \/ PaymentDropped
  <2>1. TriesAgain /\ UNCHANGED <<paid, bundles>>
    BY <1>9 DEF BroadcastRejected, PaymentDropped, At, TriesAgain, NextAttempt, chain
  <2> QED
    BY <1>1, <1>2, <1>3, <2>1
<1>10. CASE PaymentIncluded \/ Settled \/ BundlesComplete
  <2>1. PICK t \in {"settle", "deliver", "check"} :
          /\ Goto(t, r0) /\ UNCHANGED <<paid, bundles>>
          /\ stage \in Paying \cup {"settle", "deliver", "finalise"}
          /\ t = "deliver" => p0 # {}
          /\ t = "check" => stage = "finalise" /\ {"buyer", "seller"} \subseteq b0
    BY <1>10 DEF PaymentIncluded, Settled, BundlesComplete, At, chain, Paying, r0, p0, b0
  <2>2. Abreast(t, r0, p0, b0)
    BY <1>2, <2>1 DEF Abreast, Paying
  <2> QED
    BY <1>1, <1>2, <1>3, <2>1, <2>2 DEF MovesOn, Stages, r0
<1>11. CASE DeliveryVerified
  <2> DEFINE r == [r0 EXCEPT !.preview = TRUE, !.fin = "running", !.attempts = 1]
  <2>1. Goto("finalise", r) /\ UNCHANGED <<paid, bundles>> /\ stage = "deliver"
    BY <1>11 DEF DeliveryVerified, At, chain, r0
  <2>2. r \in Job /\ r.status = r0.status /\ r.session = r0.session /\ r.tx = r0.tx
    BY <1>2 DEF Job
  <2> HIDE DEF r
  <2>3. Accounted(r, p0, b0) /\ Abreast("finalise", r, p0, b0)
    BY <1>2, <2>1, <2>2 DEF Accounted, Abreast, Paying
  <2> QED
    BY <1>1, <1>2, <1>3, <2>1, <2>2, <2>3 DEF MovesOn, Stages, r0
<1>12. CASE Reconciled
  <2> DEFINE r == [r0 EXCEPT !.session = "finalised"]
  <2>1. Goto("accept", r) /\ UNCHANGED <<paid, bundles>> /\ stage = "check"
    BY <1>12 DEF Reconciled, At, chain, r0
  <2>2. r \in Job /\ r.status = r0.status /\ r.session = "finalised" /\ r.tx = r0.tx
    BY <1>2 DEF Job
  <2> HIDE DEF r
  <2>3. Accounted(r, p0, b0) /\ Abreast("accept", r, p0, b0)
    BY <1>2, <2>1, <2>2 DEF Accounted, Abreast, Paying
  <2> QED
    BY <1>1, <1>2, <1>3, <2>1, <2>2, <2>3 DEF MovesOn, Stages, r0
<1>13. CASE Throws
  <2>1. PICK fin \in {"none", "running", "failed", "complete"} :
          /\ Goto("abort", [r0 EXCEPT !.fin = fin]) /\ UNCHANGED <<paid, bundles>>
          /\ stage \in {"vet", "pay", "accepted", "await", "settle", "deliver", "finalise"}
    BY <1>2, <1>13 DEF Throws, Job, chain, r0
  <2> DEFINE r == [r0 EXCEPT !.fin = fin]
  <2>2. r \in Job /\ r.status = r0.status /\ r.session = r0.session /\ r.tx = r0.tx
    BY <1>2 DEF Job
  <2>3. Goto("abort", r)
    BY <2>1
  <2> HIDE DEF r
  <2>4. Accounted(r, p0, b0) /\ Abreast("abort", r, p0, b0)
    BY <1>2, <2>1, <2>2 DEF Accounted, Abreast, Paying
  <2> QED
    BY <1>1, <1>2, <1>3, <2>1, <2>2, <2>3, <2>4 DEF MovesOn, Stages, r0
<1>a. ASSUME NEW f \in {"none", "running", "failed", "complete"}, NEW b, Accounted(r0, p0, b)
      PROVE  /\ Failed([r0 EXCEPT !.fin = f]) \in Job
             /\ Failed([r0 EXCEPT !.fin = f]).status = "failed"
             /\ Accounted(Failed([r0 EXCEPT !.fin = f]), p0, b)
  <2> DEFINE r == [r0 EXCEPT !.fin = f]
  <2>1. r \in Job /\ r.status = r0.status /\ r.session = r0.session /\ r.tx = r0.tx
    BY <1>2 DEF Job
  <2> HIDE DEF r
  <2>2. Accounted(r, p0, b)
    BY <1>a, <2>1 DEF Accounted
  <2>3. Failed(r) \in Job /\ Failed(r).status = "failed" /\ Accounted(Failed(r), p0, b)
    BY <2>1, <2>2, FailedAccounted
  <2> QED
    BY <2>3 DEF r
<1>14. CASE Aborted
  <2> DEFINE b1 == (b0 \ {"buyer"}) \cup {"abort"}
             f == IF r0.fin = "running" THEN "failed" ELSE r0.fin
  <2>1. /\ Leave(Failed([r0 EXCEPT !.fin = f])) /\ stage = "abort" /\ paid' = paid
        /\ bundles' = bundles \/ bundles' = [bundles EXCEPT ![active] = b1]
    BY <1>14 DEF Aborted, At, r0, b0
  <2>2. f \in {"none", "running", "failed", "complete"}
    BY <1>2 DEF Job
  <2> HIDE DEF f, b1
  <2>3. PICK b \in {b0, b1} : bundles'[active] = b
    BY <1>2, <2>1 DEF TypeOK, b0
  <2>4. \A j \in Jobs \ {active} : paid'[j] = paid[j] /\ bundles'[j] = bundles[j]
    BY <1>2, <2>1 DEF TypeOK
  <2>5. Accounted(r0, p0, b)
    BY <1>2, <2>1 DEF Accounted, Abreast
  <2>6. paid'[active] = p0
    BY <2>1 DEF p0
  <2> QED
    BY <1>1, <1>2, <1>a, <2>1, <2>2, <2>3, <2>4, <2>5, <2>6 DEF LeavesLane
<1>15. CASE NegotiationFails
  <2>1. Leave(Failed(r0)) /\ UNCHANGED <<paid, bundles>>
    BY <1>15 DEF NegotiationFails, chain, r0
  <2>2. Failed(r0) \in Job /\ Failed(r0).status = "failed" /\ Accounted(Failed(r0), p0, b0)
    BY <1>2, FailedAccounted
  <2> QED
    BY <1>1, <1>2, <1>3, <2>1, <2>2 DEF LeavesLane
<1>16. CASE FinalCheckFails
  <2> DEFINE f == IF r0.profile = "fixed" THEN "failed" ELSE r0.fin
  <2>1. Leave(Failed([r0 EXCEPT !.fin = f])) /\ UNCHANGED <<paid, bundles>>
    BY <1>16 DEF FinalCheckFails, chain, r0
  <2>2. f \in {"none", "running", "failed", "complete"}
    BY <1>2 DEF Job
  <2> HIDE DEF f
  <2> QED
    BY <1>1, <1>2, <1>3, <1>a, <2>1, <2>2 DEF LeavesLane
<1>17. CASE Accepted
  <2> DEFINE c == Completed(r0)
  <2>1. Leave(c) /\ UNCHANGED <<paid, bundles>> /\ stage = "accept"
    BY <1>17 DEF Accepted, At, chain, r0
  <2>2. c \in Job /\ c.status = "complete" /\ c.session = r0.session /\ c.tx = r0.tx
    BY <1>2, CompletedTyped, CompletedKeeps, CompletedSession
  <2> HIDE DEF c
  <2>3. Accounted(c, p0, b0)
    BY <1>2, <2>1, <2>2 DEF Accounted, Abreast
  <2> QED
    BY <1>1, <1>2, <1>3, <2>1, <2>2, <2>3 DEF LeavesLane
<1>18. CASE RecoverySucceeds
  <2> DEFINE c == Completed(r0)
             r == [c EXCEPT !.recovery = "complete"]
  <2>1. /\ Leave(r) /\ UNCHANGED <<paid, bundles>> /\ stage = "recover"
        /\ p0 # {} /\ {"recovery", "seller"} \subseteq b0
    BY <1>18 DEF RecoverySucceeds, Recognised, At, chain, r0, p0, b0
  <2>2. c \in Job /\ c.status = "complete" /\ c.session = r0.session /\ c.tx = r0.tx
    BY <1>2, CompletedTyped, CompletedKeeps, CompletedSession
  <2> HIDE DEF c
  <2>3. r \in Job /\ r.status = "complete" /\ r.session = r0.session /\ r.tx = r0.tx
    BY <2>2 DEF Job
  <2> HIDE DEF r
  <2>4. Accounted(r, p0, b0)
    BY <1>2, <2>1, <2>3 DEF Accounted, Abreast
  <2> QED
    BY <1>1, <1>2, <1>3, <2>1, <2>3, <2>4 DEF LeavesLane
<1>19. ASSUME NEW transient \in BOOLEAN, RecoveryFails(transient)
       PROVE  LeavesLane /\ UNCHANGED <<paid, bundles>>
  <2> DEFINE f == IF r0.fin = "none" THEN "none" ELSE "failed"
             r1 == [r0 EXCEPT !.status = "failed", !.unpaid = FALSE]
             r2 == [r1 EXCEPT !.recovery = "failed"]
             Known(r) == r \in Job /\ r.status = "failed" /\ r.session = r0.session /\ r.tx = r0.tx
  <2>1. /\ stage = "recover" /\ UNCHANGED <<paid, bundles>>
        /\ \/ Leave([r2 EXCEPT !.fin = f])
           \/ Leave([[r2 EXCEPT !.fin = f] EXCEPT !.fin = "running"])
    BY <1>19 DEF RecoveryFails, At, chain, r0
  <2>2. Known(r1)
    BY <1>2 DEF Job
  <2> HIDE DEF r1
  <2>3. Known(r2)
    BY <2>2 DEF Job
  <2> HIDE DEF r2
  <2>4. f \in {"none", "failed"}
    OBVIOUS
  <2> HIDE DEF f
  <2>5. Known([r2 EXCEPT !.fin = f])
    BY <2>3, <2>4 DEF Job
  <2>6. Known([[r2 EXCEPT !.fin = f] EXCEPT !.fin = "running"])
    <3> DEFINE q == [r2 EXCEPT !.fin = f]
    <3>1. Known(q)
      BY <2>5
    <3> HIDE DEF q
    <3>2. Known([q EXCEPT !.fin = "running"])
      BY <3>1 DEF Job
    <3> QED
      BY <3>2 DEF q
  <2>7. PICK r : Leave(r) /\ Known(r)
    BY <2>1, <2>5, <2>6
  <2>8. Accounted(r, p0, b0)
    BY <1>2, <2>1, <2>7 DEF Accounted, Abreast
  <2> QED
    BY <1>3, <2>1, <2>7, <2>8 DEF LeavesLane
<1> QED
  BY <1>1, <1>2, <1>3, <1>4, <1>5, <1>6, <1>7, <1>8, <1>9, <1>10, <1>11, <1>12, <1>13, <1>14, <1>15,
     <1>16, <1>17, <1>18, <1>19 DEF Lane

-----------------------------------------------------------------------------
(* The lane and the hour *)

LEMMA PumpWaits ==
  ASSUME NEW q \in Seq(Items), Pump(q)
  PROVE  /\ \A j \in Jobs : Waits(j, q) => j = active' \/ Waits(j, pending')
         /\ Len(pending') \in Nat /\ Len(pending') <= Len(q)
         /\ q # <<>> => Len(pending') = Len(q) - 1
<1>1. CASE q = <<>>
  BY <1>1 DEF Pump, Waits
<1>2. CASE q # <<>>
  <2>1. pending' = Tail(q) /\ active' = q[1][1]
    BY <1>2, TailTyped DEF Pump
  <2>2. Len(q) \in Nat /\ Len(Tail(q)) = Len(q) - 1 /\ Len(q) # 0
    BY <1>2
  <2>3. ASSUME NEW n \in 1..Len(q), n # 1 PROVE n - 1 \in 1..Len(Tail(q)) /\ Tail(q)[n - 1] = q[n]
    <3>1. n - 1 \in 1..Len(Tail(q)) /\ (n - 1) + 1 = n
      BY <2>2, <2>3
    <3> QED
      BY <1>2, <3>1, TailTyped
  <2>4. \A j \in Jobs : Waits(j, q) => j = q[1][1] \/ Waits(j, Tail(q))
    <3> TAKE j \in Jobs
    <3> HAVE Waits(j, q)
    <3>1. PICK n \in 1..Len(q) : q[n][1] = j
      BY DEF Waits
    <3>2. CASE n = 1
      BY <3>1, <3>2
    <3>3. CASE n # 1
      BY <2>3, <3>1, <3>3 DEF Waits
    <3> QED
      BY <3>2, <3>3
  <2> QED
    BY <2>1, <2>2, <2>4
<1> QED
  BY <1>1, <1>2

LEMMA EnqueueWaits ==
  ASSUME TypeOK, NEW item \in Items, Enqueue(item), HasCapacity, Len(pending) <= QueueLimit
  PROVE  /\ \A j \in Jobs : j = active \/ Waits(j, pending) \/ j = item[1] =>
                              j = active' \/ Waits(j, pending')
         /\ Len(pending') <= QueueLimit
<1> DEFINE q == Append(pending, item)
<1>1. /\ q \in Seq(Items) /\ q # <<>> /\ Len(pending) \in Nat /\ Len(q) = Len(pending) + 1
      /\ QueueLimit \in Nat
  <2>1. pending \in Seq(Items)
    BY DEF TypeOK, Items
  <2>2. QueueLimit \in Nat
    BY JobsAssumption DEF JobsAssumption
  <2>3. item \in Items
    OBVIOUS
  <2> HIDE DEF Items
  <2>4. Len(pending) \in Nat
    BY <2>1
  <2>5. q \in Seq(Items)
    BY <2>1, <2>3
  <2>6. Len(q) = Len(pending) + 1
    BY <2>1, <2>3
  <2>7. q # <<>>
    BY <2>4, <2>5, <2>6
  <2> HIDE DEF q
  <2> QED
    BY <2>2, <2>4, <2>5, <2>6, <2>7
<1>2. \A j \in Jobs : Waits(j, pending) \/ j = item[1] => Waits(j, q)
  <2>1. \A n \in 1..Len(pending) : n \in 1..Len(q) /\ q[n] = pending[n]
    BY <1>1 DEF TypeOK
  <2>2. Len(q) \in 1..Len(q) /\ q[Len(q)] = item
    BY <1>1 DEF TypeOK
  <2> QED
    BY <2>1, <2>2 DEF Waits
<1>3. CASE active = None
  <2>1. Pump(q)
    BY <1>3 DEF Enqueue
  <2>2. /\ \A j \in Jobs : Waits(j, q) => j = active' \/ Waits(j, pending')
        /\ Len(pending') = Len(q) - 1
    BY <1>1, <2>1, PumpWaits
  <2>3. Len(pending') <= QueueLimit
    BY <1>1, <2>2
  <2>4. \A j \in Jobs : j # active
    BY <1>3, JobsAssumption DEF JobsAssumption
  <2> QED
    BY <1>2, <2>2, <2>3, <2>4
<1>4. CASE active # None
  <2>1. pending' = q /\ active' = active /\ Len(pending) < QueueLimit
    BY <1>4 DEF Enqueue, HasCapacity
  <2>2. Len(q) <= QueueLimit
    BY <1>1, <2>1
  <2> HIDE DEF q
  <2> QED
    BY <1>2, <2>1, <2>2
<1> QED
  BY <1>3, <1>4

(* A step of the lane, or one that resumes a job, keeps the lane bounded.  *)
LEMMA LaneBounds ==
  ASSUME TypeOK, JournalInv, OutcomeInv, BoundInv, Lane
  PROVE  BoundInv'
<1>1. active \in Jobs /\ active # None /\ job[active].status = "running"
  BY LaneShapes DEF JournalInv, LaneOK
<1>2. CASE MovesOn
  <2>1. PICK r \in Job, t \in Stages : Goto(t, r)
    BY <1>2 DEF MovesOn
  <2>2. \A j \in Jobs \ {active} : job'[j] = job[j]
    BY <1>1, <2>1 DEF Goto, TypeOK
  <2>3. UNCHANGED <<active, pending, starts, recent>>
    BY <2>1 DEF Goto
  <2> QED
    BY <2>2, <2>3 DEF BoundInv, Waits
<1>3. CASE TriesAgain
  <2>1. UNCHANGED <<job, active, pending, starts, recent>>
    BY <1>3 DEF TriesAgain, NextAttempt
  <2> QED
    BY <2>1 DEF BoundInv, Waits
<1>4. CASE LeavesLane
  <2>1. PICK r \in Job : Leave(r) /\ r.status # "running"
    BY <1>4 DEF LeavesLane
  <2>2. job'[active] = r /\ \A j \in Jobs \ {active} : job'[j] = job[j]
    BY <1>1, <2>1 DEF Leave, TypeOK
  <2>3. /\ \A j \in Jobs : Waits(j, pending) => j = active' \/ Waits(j, pending')
        /\ Len(pending') \in Nat /\ Len(pending') <= Len(pending) /\ UNCHANGED <<starts, recent>>
    BY <2>1, PumpWaits DEF Leave, TypeOK, Items
  <2>4. Len(pending') <= QueueLimit
    BY <2>3, JobsAssumption DEF BoundInv, JobsAssumption, TypeOK
  <2> QED
    BY <2>1, <2>2, <2>3, <2>4 DEF BoundInv
<1> QED
  BY <1>2, <1>3, <1>4, LaneShapes

LEMMA ResumeBounds ==
  ASSUME TypeOK, BoundInv, NEW j \in Jobs, MayResume(j), Resume(j), UNCHANGED <<starts, recent>>
  PROVE  BoundInv'
<1>1. /\ <<j, "recover">> \in Items /\ <<j, "recover">>[1] = j
      /\ Enqueue(<<j, "recover">>) /\ HasCapacity
      /\ \A i \in Jobs \ {j} : job'[i] = job[i]
  BY DEF Items, Resume, MayResume, TypeOK
<1>2. /\ \A i \in Jobs : i = active \/ Waits(i, pending) \/ i = j => i = active' \/ Waits(i, pending')
      /\ Len(pending') <= QueueLimit
  BY <1>1, EnqueueWaits DEF BoundInv
<1> QED
  BY <1>1, <1>2 DEF BoundInv

LEMMA SelfResumeBounds ==
  ASSUME TypeOK, BoundInv, NEW j \in Jobs, SelfResume(j), UNCHANGED <<starts, recent>>
  PROVE  BoundInv'
<1>1. CASE MayResume(j)
  BY <1>1, ResumeBounds DEF SelfResume
<1>2. CASE ~MayResume(j)
  <2>1. /\ job' = [job EXCEPT ![j] = [job[j] EXCEPT !.fin = "failed"]]
        /\ UNCHANGED <<active, pending>>
    BY <1>2 DEF SelfResume, TypeOK
  <2>2. \A i \in Jobs : job'[i].status = job[i].status
    BY <2>1 DEF TypeOK, Job
  <2> QED
    BY <2>1, <2>2 DEF BoundInv, Waits
<1> QED
  BY <1>1, <1>2

LEMMA StartBounds ==
  ASSUME TypeOK, BoundInv, NEW j \in Jobs, NEW k \in Keys \cup {None}, NEW rail \in Rails,
         NEW profile \in Profiles, StartRequest(j, k, rail, profile)
  PROVE  BoundInv'
<1>1. /\ <<j, "run">> \in Items /\ <<j, "run">>[1] = j /\ Enqueue(<<j, "run">>) /\ HasCapacity
      /\ \A i \in Jobs \ {j} : job'[i] = job[i]
      /\ recent' = recent \cup {j} /\ starts' = starts \cup {j} /\ Cardinality(starts) < HourlyLimit
  BY DEF Items, StartRequest, TypeOK
<1>2. /\ \A i \in Jobs : i = active \/ Waits(i, pending) \/ i = j => i = active' \/ Waits(i, pending')
      /\ Len(pending') <= QueueLimit
  BY <1>1, EnqueueWaits DEF BoundInv
<1>3. /\ IsFiniteSet(recent) /\ Cardinality(recent) \in Nat /\ Cardinality(recent) < HourlyLimit
      /\ HourlyLimit \in Nat
  BY <1>1, JobsAssumption, FS_CardinalityType DEF BoundInv, JobsAssumption
<1>4. /\ IsFiniteSet(recent \cup {j})
      /\ Cardinality(recent \cup {j}) \in {Cardinality(recent), Cardinality(recent) + 1}
  BY <1>3, FS_AddElement
<1>5. Cardinality(recent') <= HourlyLimit
  BY <1>1, <1>3, <1>4
<1>6. starts' = recent' /\ IsFiniteSet(recent')
  BY <1>1, <1>4 DEF BoundInv
<1>7. \A i \in Jobs : job'[i].status = "running" => i = active' \/ Waits(i, pending')
  BY <1>1, <1>2 DEF BoundInv
<1> QED
  BY <1>2, <1>5, <1>6, <1>7 DEF BoundInv

LEMMA HourBounds ==
  ASSUME TypeOK, BoundInv, NEW j \in Jobs, HourPasses(j)
  PROVE  BoundInv'
<1>1. /\ j \in recent /\ recent' = recent \ {j} /\ starts' = starts \ {j}
      /\ UNCHANGED <<job, active, pending>>
  BY DEF HourPasses
<1>2. IsFiniteSet(recent') /\ Cardinality(recent') = Cardinality(recent) - 1
  BY <1>1, FS_RemoveElement DEF BoundInv
<1>3. Cardinality(recent) \in Nat /\ HourlyLimit \in Nat
  BY JobsAssumption, FS_CardinalityType DEF BoundInv, JobsAssumption
<1>4. Cardinality(recent') <= HourlyLimit
  BY <1>2, <1>3 DEF BoundInv
<1> QED
  BY <1>1, <1>2, <1>4 DEF BoundInv, Waits

-----------------------------------------------------------------------------
(* What a payment becomes *)

LEMMA PumpAbreast ==
  ASSUME NEW q \in Seq(Items), NEW rec, Pump(q),
         \A n \in 1..Len(q) : rec[q[n][1]].session \in {"none", "aborted"},
         NEW p, NEW b
  PROVE  active' # None => Abreast(stage', rec[active'], p, b)
<1>1. CASE q = <<>>
  BY <1>1 DEF Pump
<1>2. CASE q # <<>>
  <2>1. active' = q[1][1] /\ stage' \in {"negotiate", "recover"} /\ 1 \in 1..Len(q)
    BY <1>2, TailTyped DEF Pump
  <2> QED
    BY <2>1 DEF Abreast, Paying
<1> QED
  BY <1>1, <1>2

LEMMA LaneOutcome ==
  ASSUME TypeOK, JournalInv, OutcomeInv, Lane
  PROVE  OutcomeInv'
<1>1. /\ active \in Jobs /\ active # None /\ job[active].status = "running"
      /\ \A j \in Jobs \ {active} : paid'[j] = paid[j] /\ bundles'[j] = bundles[j]
  BY LaneShapes DEF JournalInv, LaneOK
<1>2. CASE MovesOn
  <2>1. PICK r \in Job, t \in Stages :
          /\ Goto(t, r) /\ r.status = job[active].status
          /\ Accounted(r, paid'[active], bundles'[active])
          /\ Abreast(t, r, paid'[active], bundles'[active])
    BY <1>2 DEF MovesOn
  <2>2. /\ job'[active] = r /\ stage' = t /\ active' = active
        /\ \A j \in Jobs \ {active} : job'[j] = job[j]
    BY <1>1, <2>1 DEF Goto, TypeOK
  <2>3. \A j \in Jobs : Accounted(job'[j], paid'[j], bundles'[j])
    BY <1>1, <2>1, <2>2 DEF OutcomeInv
  <2>4. \A j \in Jobs : job'[j].status = "running" /\ j # active' => job'[j].session \in {"none", "aborted"}
    BY <2>2 DEF OutcomeInv
  <2>5. Abreast(stage', job'[active'], paid'[active'], bundles'[active'])
    BY <2>1, <2>2
  <2> QED
    BY <2>3, <2>4, <2>5 DEF OutcomeInv
<1>3. CASE TriesAgain
  <2>1. /\ UNCHANGED <<job, active, paid, bundles>> /\ stage \in {"pay", "await"}
        /\ stage' \in {"pay", "abort"}
    BY <1>3 DEF TriesAgain, NextAttempt, chain
  <2>2. Abreast(stage', job[active], paid[active], bundles[active])
    BY <1>1, <2>1 DEF OutcomeInv, Abreast, Paying
  <2> QED
    BY <2>1, <2>2 DEF OutcomeInv
<1>4. CASE LeavesLane
  <2>1. PICK r \in Job :
          /\ Leave(r) /\ r.status # "running"
          /\ Accounted(r, paid'[active], bundles'[active])
    BY <1>4 DEF LeavesLane
  <2>2. /\ job'[active] = r /\ Pump(pending) /\ pending \in Seq(Items)
        /\ \A j \in Jobs \ {active} : job'[j] = job[j]
    BY <1>1, <2>1 DEF Leave, TypeOK, Items
  <2>3. \A j \in Jobs : Accounted(job'[j], paid'[j], bundles'[j])
    BY <1>1, <2>1, <2>2 DEF OutcomeInv
  <2>4. \A j \in Jobs : job'[j].status = "running" => job'[j].session \in {"none", "aborted"}
    BY <2>1, <2>2 DEF OutcomeInv
  <2>5. \A n \in 1..Len(pending) :
          /\ pending[n][1] \in Jobs \ {active}
          /\ job'[pending[n][1]].session \in {"none", "aborted"}
    <3>1. \A n \in 1..Len(pending) : pending[n][1] \in Jobs /\ pending[n][1] # active
                                     /\ job[pending[n][1]].status = "running"
      BY <2>2 DEF JournalInv, QueueOK, QueueFine, Items
    <3> QED
      BY <2>2, <2>4, <3>1
  <2>7. active' # None => Abreast(stage', job'[active'], paid'[active'], bundles'[active'])
    BY <2>2, <2>5, PumpAbreast
  <2> QED
    BY <2>3, <2>4, <2>7 DEF OutcomeInv
<1> QED
  BY <1>2, <1>3, <1>4, LaneShapes

LEMMA EnqueueOutcome ==
  ASSUME TypeOK, JournalInv, OutcomeInv, NEW j \in Jobs, NEW r \in Job, NEW kind \in {"run", "recover"},
         job[j].status # "running", r.session \in {"none", "aborted"},
         Accounted(r, paid[j], bundles[j]),
         job' = [job EXCEPT ![j] = r], Enqueue(<<j, kind>>), UNCHANGED <<paid, bundles>>
  PROVE  OutcomeInv'
<1> DEFINE item == <<j, kind>>
           q == Append(pending, item)
<1>1. job'[j] = r /\ \A i \in Jobs \ {j} : job'[i] = job[i]
  BY DEF TypeOK
<1>2. \A i \in Jobs : Accounted(job'[i], paid'[i], bundles'[i])
  BY <1>1 DEF OutcomeInv
<1>3. CASE active = None
  <2>1. Pump(q)
    BY <1>3 DEF Enqueue
  <2>2. pending \in Seq(Items) /\ item \in Items /\ item[1] = j
    BY DEF TypeOK, Items
  <2>3. \A i \in Jobs : job'[i].status = "running" => job'[i].session \in {"none", "aborted"}
    BY <1>1, <1>3, JobsAssumption DEF OutcomeInv, JobsAssumption
  <2>4. ASSUME NEW n \in 1..Len(pending)
        PROVE  job'[pending[n][1]].session \in {"none", "aborted"}
    <3>1. pending[n][1] \in Jobs /\ job[pending[n][1]].status = "running"
      BY <2>2 DEF JournalInv, QueueOK, QueueFine, Items
    <3> QED
      BY <1>1, <2>3, <3>1
  <2> HIDE DEF item
  <2>5. /\ q \in Seq(Items)
        /\ \A n \in 1..Len(q) : q[n] = item \/ (n \in 1..Len(pending) /\ q[n] = pending[n])
    BY <2>2
  <2>6. \A n \in 1..Len(q) : job'[q[n][1]].session \in {"none", "aborted"}
    BY <1>1, <2>2, <2>4, <2>5
  <2> HIDE DEF q
  <2>7. active' # None => Abreast(stage', job'[active'], paid'[active'], bundles'[active'])
    BY <2>1, <2>5, <2>6, PumpAbreast
  <2> QED
    BY <1>2, <2>3, <2>7 DEF OutcomeInv
<1>4. CASE active # None
  <2>1. active' = active /\ stage' = stage
    BY <1>4 DEF Enqueue
  <2>2. active \in Jobs /\ active # j
    BY <1>4 DEF TypeOK, JournalInv, LaneOK
  <2>3. job'[active] = job[active]
    BY <1>1, <2>2
  <2> QED
    BY <1>1, <1>2, <2>1, <2>2, <2>3 DEF OutcomeInv
<1> QED
  BY <1>3, <1>4

LEMMA ResumeOutcome ==
  ASSUME TypeOK, JournalInv, OutcomeInv, NEW j \in Jobs, MayResume(j), Resume(j), UNCHANGED <<paid, bundles>>
  PROVE  OutcomeInv'
<1> DEFINE r == Resumed(job[j])
<1>1. job[j].status = "failed" /\ job[j].session = "aborted" /\ job[j] \in Job
  BY DEF MayResume, Recoverable, TypeOK
<1>2. r \in Job /\ r.status = "running" /\ r.session = "aborted"
  BY <1>1, ResumedTyped, ResumedKeeps, ResumedSession
<1>3. job' = [job EXCEPT ![j] = r] /\ Enqueue(<<j, "recover">>)
  BY DEF Resume
<1> HIDE DEF r
<1>4. Accounted(r, paid[j], bundles[j])
  BY <1>2 DEF Accounted
<1> QED
  BY <1>1, <1>2, <1>3, <1>4, EnqueueOutcome

LEMMA SelfResumeOutcome ==
  ASSUME TypeOK, JournalInv, OutcomeInv, NEW j \in Jobs, SelfResume(j), UNCHANGED <<paid, bundles>>
  PROVE  OutcomeInv'
<1>1. CASE MayResume(j)
  BY <1>1, ResumeOutcome DEF SelfResume
<1>2. CASE ~MayResume(j)
  <2>1. /\ job' = [job EXCEPT ![j] = [job[j] EXCEPT !.fin = "failed"]]
        /\ UNCHANGED <<active, stage>>
    BY <1>2 DEF SelfResume, TypeOK
  <2>2. \A i \in Jobs : /\ job'[i].status = job[i].status /\ job'[i].session = job[i].session
                        /\ job'[i].tx = job[i].tx
    BY <2>1 DEF TypeOK, Job
  <2>3. active # None => active \in Jobs
    BY DEF TypeOK
  <2> QED
    BY <2>1, <2>2, <2>3 DEF OutcomeInv, Accounted, Abreast
<1> QED
  BY <1>1, <1>2

LEMMA StartOutcome ==
  ASSUME TypeOK, JournalInv, OutcomeInv, NEW j \in Jobs, NEW k \in Keys \cup {None}, NEW rail \in Rails,
         NEW profile \in Profiles, StartRequest(j, k, rail, profile)
  PROVE  OutcomeInv'
<1> DEFINE r == [NoJob EXCEPT !.status = "running", !.key = k, !.rail = rail, !.profile = profile]
<1>1. r \in Job /\ r.status = "running" /\ r.session = "none" /\ r.tx = NoTx
  BY NoJobTyped, JobsAssumption DEF Job, NoJob, JobsAssumption
<1>2. /\ job' = [job EXCEPT ![j] = r] /\ Enqueue(<<j, "run">>) /\ UNCHANGED <<paid, bundles>>
      /\ job[j].status = "none"
  BY DEF StartRequest, chain
<1> HIDE DEF r
<1>3. Accounted(r, paid[j], bundles[j])
  BY <1>1 DEF Accounted
<1> QED
  BY <1>1, <1>2, <1>3, EnqueueOutcome

(* The chain only ever adds to what a job has: payments and bundles stay.  *)
LEMMA ChainOutcome ==
  ASSUME TypeOK, OutcomeInv, UNCHANGED <<job, active, stage>>,
         \A j \in Jobs : (paid[j] # {} => paid'[j] # {}) /\ bundles[j] \subseteq bundles'[j]
  PROVE  OutcomeInv'
<1>1. \A j \in Jobs : Accounted(job[j], paid'[j], bundles'[j])
  BY DEF OutcomeInv, Accounted
<1>2. active # None => Abreast(stage, job[active], paid'[active], bundles'[active])
  BY DEF TypeOK, OutcomeInv, Abreast
<1> QED
  BY <1>1, <1>2 DEF OutcomeInv

LEMMA LaneAndOutcome == Spec => [](BoundInv /\ OutcomeInv)
<1> USE DEF volatile, chain
<1>1. Init => BoundInv /\ OutcomeInv
  <2> SUFFICES ASSUME Init PROVE BoundInv /\ OutcomeInv
    OBVIOUS
  <2>1. /\ \A j \in Jobs : job[j] = NoJob
        /\ recent = {} /\ starts = {} /\ pending = <<>> /\ active = None
    BY DEF Init
  <2>2. QueueLimit \in Nat /\ HourlyLimit \in Nat
    BY JobsAssumption DEF JobsAssumption
  <2>3. BoundInv
    BY <2>1, <2>2, FS_EmptySet DEF BoundInv, NoJob
  <2>4. OutcomeInv
    BY <2>1 DEF OutcomeInv, Accounted, NoJob, NoTx
  <2> QED
    BY <2>3, <2>4
<1>2. TypeOK /\ JournalInv /\ BoundInv /\ OutcomeInv /\ [Next]_vars => BoundInv' /\ OutcomeInv'
  <2> SUFFICES ASSUME TypeOK, JournalInv, BoundInv, OutcomeInv, [Next]_vars PROVE BoundInv' /\ OutcomeInv'
    OBVIOUS
  <2>1. CASE Lane
    BY <2>1, LaneBounds, LaneOutcome
  <2>2. ASSUME NEW j \in Jobs, NEW k \in Keys \cup {None}, NEW rail \in Rails, NEW profile \in Profiles,
               StartRequest(j, k, rail, profile)
        PROVE  BoundInv' /\ OutcomeInv'
    BY <2>2, StartBounds, StartOutcome
  <2>3. ASSUME NEW j \in Jobs, Recover(j) PROVE BoundInv' /\ OutcomeInv'
    <3>1. MayResume(j) /\ Resume(j) /\ UNCHANGED <<starts, recent, paid, bundles>>
      BY <2>3 DEF Recover
    <3> QED
      BY <3>1, ResumeBounds, ResumeOutcome
  <2>4. ASSUME NEW j \in Jobs, SelfResume(j), UNCHANGED <<starts, recent, paid, bundles>>
        PROVE  BoundInv' /\ OutcomeInv'
    BY <2>4, SelfResumeBounds, SelfResumeOutcome
  <2>5. CASE UNCHANGED <<job, active, stage, pending, starts, recent, paid, bundles>>
    BY <2>5 DEF BoundInv, Waits, OutcomeInv
  <2>6. ASSUME NEW j \in Jobs, TimerFires(j) \/ BootResume(j) PROVE BoundInv' /\ OutcomeInv'
    BY <2>4, <2>5, <2>6 DEF TimerFires, BootResume
  <2>7. CASE Restart
    <3>1. /\ job' = [j \in Jobs |-> Loaded(job[j])] /\ active' = None /\ pending' = <<>>
          /\ starts' = recent /\ UNCHANGED <<recent, paid, bundles>>
      BY <2>7 DEF Restart, CountedStarts
    <3>2. \A j \in Jobs : /\ job'[j].status # "running"
                          /\ Accounted(job'[j], paid'[j], bundles'[j])
      BY <3>1, LoadedAccounted DEF TypeOK, OutcomeInv
    <3>3. Len(pending') <= QueueLimit
      BY <3>1, JobsAssumption DEF JobsAssumption
    <3>4. BoundInv'
      BY <3>1, <3>2, <3>3 DEF BoundInv
    <3>5. OutcomeInv'
      BY <3>1, <3>2 DEF OutcomeInv
    <3> QED
      BY <3>4, <3>5
  <2>8. ASSUME NEW j \in Jobs, HourPasses(j) PROVE BoundInv' /\ OutcomeInv'
    <3>1. UNCHANGED <<job, active, stage, paid, bundles>>
      BY <2>8 DEF HourPasses
    <3> QED
      BY <2>8, <3>1, HourBounds DEF OutcomeInv
  <2>9. ASSUME NEW j \in Jobs, NEW n \in Txs, Include(j, n) \/ Drop(j, n) PROVE BoundInv' /\ OutcomeInv'
    <3>1. /\ UNCHANGED <<job, active, stage, pending, starts, recent>>
          /\ \A i \in Jobs : (paid[i] # {} => paid'[i] # {}) /\ bundles[i] \subseteq bundles'[i]
      BY <2>9 DEF Include, Drop, TypeOK
    <3> QED
      BY <3>1, ChainOutcome DEF BoundInv, Waits
  <2>10. ASSUME BuyerAnchorsBundle \/ \E j \in Jobs : SellerAnchorsBundle(j) PROVE BoundInv' /\ OutcomeInv'
    <3>1. /\ UNCHANGED <<job, active, stage, pending, starts, recent, paid>>
          /\ \A i \in Jobs : bundles[i] \subseteq bundles'[i]
      BY <2>10 DEF BuyerAnchorsBundle, SellerAnchorsBundle, TypeOK
    <3> QED
      BY <3>1, ChainOutcome DEF BoundInv, Waits
  <2>11. CASE UNCHANGED vars
    BY <2>5, <2>11 DEF vars
  <2> QED
    BY <2>1, <2>2, <2>3, <2>6, <2>7, <2>8, <2>9, <2>10, <2>11 DEF Next, Process, Environment, TypeOK
<1> QED
  BY <1>1, <1>2, Typing, JournalInvariant, PTL DEF Spec

-----------------------------------------------------------------------------
(* The jobs of a fine queue are as many as its places.                     *)
LEMMA QueueIsASet ==
  ASSUME NEW q \in Seq(Items), NEW a, NEW rec, QueueFine(q, a, rec)
  PROVE  LET Q == {q[n][1] : n \in 1..Len(q)} IN
         IsFiniteSet(Q) /\ Cardinality(Q) = Len(q) /\ a \notin Q
<1> DEFINE Q == {q[n][1] : n \in 1..Len(q)}
           D == 1..Len(q)
           f == [n \in D |-> q[n][1]]
<1>1. Len(q) \in Nat
  OBVIOUS
<1>2. IsFiniteSet(D) /\ Cardinality(D) = Len(q)
  <2>1. IsFiniteSet(1..Len(q)) /\ Cardinality(1..Len(q)) = IF 1 > Len(q) THEN 0 ELSE Len(q) - 1 + 1
    BY <1>1, FS_Interval
  <2> QED
    BY <1>1, <2>1
<1>3. a \notin Q /\ \A m, n \in D : m # n => q[m][1] # q[n][1]
  BY DEF QueueFine
<1>4. f \in Surjection(D, Q) /\ f \in Injection(D, Q)
  <2>1. \A n \in D : q[n][1] \in Q
    OBVIOUS
  <2>2. \A x \in Q : \E n \in D : q[n][1] = x
    OBVIOUS
  <2> HIDE DEF D, Q
  <2>3. f \in [D -> Q] /\ \A n \in D : f[n] = q[n][1]
    BY <2>1
  <2> HIDE DEF f
  <2>4. \A x \in Q : \E n \in D : f[n] = x
    BY <2>2, <2>3
  <2>5. \A m, n \in D : f[m] = f[n] => m = n
    BY <1>3, <2>3
  <2>6. f \in Surjection(D, Q)
    BY <2>3, <2>4 DEF Surjection
  <2> QED
    BY <2>3, <2>5, <2>6 DEF Injection, IsInjective
<1> HIDE DEF f, D, Q
<1>5. IsFiniteSet(Q) /\ Cardinality(Q) = Cardinality(D)
  BY <1>2, <1>4, FS_Surjection
<1> QED
  BY <1>2, <1>3, <1>5 DEF Q

(* The journal's running jobs are the lane and its queue, each once and    *)
(* within the queue's limit, and no hour has more starts than it may.      *)
THEOREM LaneSafety == Spec => []LaneIsBounded
<1>1. TypeOK /\ JournalInv /\ BoundInv => LaneIsBounded
  <2> SUFFICES ASSUME TypeOK, JournalInv, BoundInv PROVE LaneIsBounded
    OBVIOUS
  <2> DEFINE Q == {pending[n][1] : n \in 1..Len(pending)}
  <2>1. pending \in Seq(Items) /\ QueueFine(pending, active, job)
    BY DEF TypeOK, Items, JournalInv, QueueOK
  <2>2. IsFiniteSet(Q) /\ Cardinality(Q) = Len(pending) /\ active \notin Q
    BY <2>1, QueueIsASet
  <2>3. \A j \in Q : j \in Jobs /\ job[j].status = "running"
    BY <2>1 DEF QueueFine, Items
  <2>4. active \in Jobs /\ active # None => job[active].status = "running"
    BY DEF JournalInv, LaneOK
  <2>5. \A j \in Jobs : job[j].status = "running" => j = active \/ j \in Q
    BY DEF BoundInv, Waits
  <2>6. active \in Jobs \cup {None} /\ None \notin Jobs
    BY JobsAssumption DEF TypeOK, JobsAssumption
  <2> HIDE DEF Q
  <2>7. Q \cup ({active} \ {None}) = {j \in Jobs : job[j].status = "running"}
    BY <2>3, <2>4, <2>5, <2>6
  <2>8. Cardinality(Q \cup ({active} \ {None})) = Len(pending) + (IF active = None THEN 0 ELSE 1)
    <3>1. CASE active = None
      <4>1. Q \cup ({active} \ {None}) = Q
        BY <3>1
      <4>2. Len(pending) \in Nat
        BY <2>1
      <4> QED
        BY <2>2, <3>1, <4>1, <4>2
    <3>2. CASE active # None
      <4>1. Q \cup ({active} \ {None}) = Q \cup {active}
        BY <3>2
      <4>2. Cardinality(Q \cup {active}) = Cardinality(Q) + 1
        BY <2>2, FS_AddElement
      <4> QED
        BY <2>2, <3>2, <4>1, <4>2
    <3> QED
      BY <3>1, <3>2
  <2>9. QueueIsTheRunningJobs
    BY <2>7, <2>8 DEF QueueIsTheRunningJobs, BoundInv, Q
  <2> QED
    BY <2>9 DEF LaneIsBounded, HourlyBudget, BoundInv
<1> QED
  BY <1>1, Typing, JournalInvariant, LaneAndOutcome, PTL

(* A completed job was paid and has both completion bundles on the chain;  *)
(* a failed job that was paid over the native rail, by a payment its       *)
(* record names, can be recovered or lacks nothing but its last await.     *)
THEOREM OutcomeSafety == Spec => []PaymentHasAnOutcome
<1>1. TypeOK /\ JournalInv /\ OutcomeInv => PaymentHasAnOutcome
  <2> SUFFICES ASSUME TypeOK, JournalInv, OutcomeInv PROVE PaymentHasAnOutcome
    OBVIOUS
  <2>1. CompleteIsReconciled
    BY DEF OutcomeInv, Accounted, CompleteIsReconciled
  <2>2. ASSUME NEW j \in Jobs, job[j].status = "failed", paid[j] # {}, job[j].tx \in paid[j]
        PROVE  \/ Recoverable(job[j]) /\ paid[j] = {job[j].tx}
               \/ job[j].session = "finalised" /\ {"buyer", "seller"} \subseteq bundles[j]
    <3>1. job[j].tx # NoTx
      BY <2>2, JobsAssumption DEF TypeOK, Txs, NoTx, JobsAssumption
    <3>2. paid[j] = {job[j].tx}
      BY <2>2 DEF JournalInv, ChainOK
    <3>3. job[j].session \in {"aborted", "finalised"}
      BY <2>2, <3>1 DEF OutcomeInv, Accounted
    <3> QED
      BY <2>2, <3>1, <3>2, <3>3 DEF Recoverable, OutcomeInv, Accounted
  <2>3. PaidIsNotLost
    BY <2>2 DEF PaidIsNotLost
  <2> QED
    BY <2>1, <2>3 DEF PaymentHasAnOutcome
<1> QED
  BY <1>1, Typing, JournalInvariant, LaneAndOutcome, PTL
=============================================================================
