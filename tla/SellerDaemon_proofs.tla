------------------------ MODULE SellerDaemon_proofs ------------------------
(***************************************************************************)
(* Proofs about SellerDaemon for any number of agreements, transactions,   *)
(* concurrent handlers and restarts.                                       *)
(***************************************************************************)
EXTENDS SellerDaemon, TLAPS

(* What a handler holds at the await it is at.                             *)
TaskFine(s) ==
  /\ s.pc # "idle" => s.a \in Agreements
  /\ s.pc \in {"lookup", "backoff", "commit"} => s.tx \in Txs
  /\ s.pc \in {"plan", "anchorArtifact", "anchorEvidence"} => s.content \in Contents
  /\ s.pc \in {"anchorArtifact", "anchorEvidence"} => s.evidence \in Evidence
TaskOK == \A k \in Tasks : TaskFine(task[k])

-----------------------------------------------------------------------------
LEMMA IdleTyped == Idle \in Task /\ TaskFine(Idle)
BY DEF Idle, Task, Stages, TaskFine

(* Replacing one handler's state keeps the others and the type.            *)
LEMMA TaskUpdate ==
  ASSUME TypeOK, NEW k \in Tasks, NEW s \in Task, task' = [task EXCEPT ![k] = s]
  PROVE  /\ task' \in [Tasks -> Task]
         /\ task'[k] = s
         /\ \A j \in Tasks : j # k => task'[j] = task[j]
BY DEF TypeOK

LEMMA FineUpdate ==
  ASSUME TaskOK, NEW k \in Tasks, TaskFine(task'[k]),
         \A j \in Tasks : j # k => task'[j] = task[j]
  PROVE  TaskOK'
<1> SUFFICES ASSUME NEW j \in Tasks PROVE TaskFine(task[j])'
  BY DEF TaskOK
<1>1. TaskFine(task[j])
  BY DEF TaskOK
<1> QED
  BY <1>1 DEF TaskFine

(* The same for each way a handler's state changes.                        *)
LEMMA GotoUpdate ==
  ASSUME TypeOK, NEW k \in Tasks, NEW pc \in Stages, Goto(k, pc)
  PROVE  /\ task' \in [Tasks -> Task]
         /\ task'[k] = [task[k] EXCEPT !.pc = pc]
         /\ \A j \in Tasks : j # k => task'[j] = task[j]
<1>1. task[k] \in Task
  BY DEF TypeOK
<1>2. [task[k] EXCEPT !.pc = pc] \in Task
  BY <1>1 DEF Task
<1>3. task' = [task EXCEPT ![k] = [task[k] EXCEPT !.pc = pc]]
  BY DEF Goto
<1> QED
  BY <1>2, <1>3, TaskUpdate

LEMMA EndUpdate ==
  ASSUME TypeOK, TaskOK, NEW k \in Tasks, End(k)
  PROVE  /\ task' \in [Tasks -> Task] /\ TaskOK'
         /\ task'[k] = Idle
         /\ \A j \in Tasks : j # k => task'[j] = task[j]
<1>1. /\ task' \in [Tasks -> Task] /\ task'[k] = Idle
      /\ \A j \in Tasks : j # k => task'[j] = task[j]
  BY IdleTyped, TaskUpdate DEF End
<1> QED
  BY <1>1, IdleTyped, FineUpdate

LEMMA StartUpdate ==
  ASSUME TypeOK, TaskOK, NEW k \in Tasks, NEW pc \in {"sign", "accept", "lookup"},
         NEW a \in Agreements, NEW t \in Txs \cup {None}, pc = "lookup" => t \in Txs,
         Start(k, pc, a, t)
  PROVE  /\ task' \in [Tasks -> Task] /\ TaskOK'
         /\ task'[k] = [Idle EXCEPT !.pc = pc, !.a = a, !.tx = t]
         /\ \A j \in Tasks : j # k => task'[j] = task[j]
<1>1. [Idle EXCEPT !.pc = pc, !.a = a, !.tx = t] \in Task
  BY DEF Task, Idle, Stages
<1>2. TaskFine([Idle EXCEPT !.pc = pc, !.a = a, !.tx = t])
  BY DEF TaskFine, Idle
<1>3. /\ task' \in [Tasks -> Task]
      /\ task'[k] = [Idle EXCEPT !.pc = pc, !.a = a, !.tx = t]
      /\ \A j \in Tasks : j # k => task'[j] = task[j]
  BY <1>1, TaskUpdate DEF Start
<1> QED
  BY <1>2, <1>3, FineUpdate

(* store.delivered writes a record and sends it.                           *)
LEMMA PersistTyped ==
  ASSUME TypeOK, TaskOK, NEW k \in Tasks, task[k].a \in Agreements,
         NEW c \in Contents, NEW ev \in Evidence \cup {None}, Persist(k, c, ev)
  PROVE  /\ settled' \in [Agreements -> Record] /\ told' \subseteq Replies
         /\ task' \in [Tasks -> Task] /\ TaskOK'
<1>1. settled[task[k].a] \in Record
  BY DEF TypeOK
<1>2. [settled[task[k].a] EXCEPT !.delivery = c, !.evidence = ev] \in Record
  BY <1>1 DEF Record
<1>3. settled' = [settled EXCEPT ![task[k].a] =
                    [settled[task[k].a] EXCEPT !.delivery = c, !.evidence = ev]]
  BY DEF Persist, TypeOK
<1>4. settled' \in [Agreements -> Record]
  BY <1>2, <1>3 DEF TypeOK
<1>5. told' \subseteq Replies
  BY DEF Persist, TryTell, Tell, TypeOK, Replies
<1> QED
  BY <1>4, <1>5, EndUpdate DEF Persist

(* The store holds agreements and transactions, a handler what its await   *)
(* needs, and the anchors what the handlers wrote.                         *)
THEOREM Typing == Spec => [](TypeOK /\ TaskOK)
<1> USE SellerAssumption
<1>1. Init => TypeOK /\ TaskOK
  BY IdleTyped DEF Init, TypeOK, TaskOK, NoRecord, Record
<1>2. TypeOK /\ TaskOK /\ [Next]_vars => (TypeOK /\ TaskOK)'
  <2> SUFFICES ASSUME TypeOK, TaskOK, [Next]_vars PROVE TypeOK' /\ TaskOK'
    OBVIOUS
  <2> USE DEF store, memory, world, history
  <2>1. ASSUME NEW a \in Agreements,
               \/ Open(a) \/ SessionFails(a) \/ NegotiationOffers(a)
               \/ FixedReady(a) \/ FixedExpires(a)
        PROVE  TypeOK' /\ TaskOK'
    BY <2>1 DEF Open, SessionFails, NegotiationOffers, FixedReady, FixedExpires, TypeOK, TaskOK
  <2>2. ASSUME NEW a \in Agreements, NEW t \in Txs, SettleAgain(a, t) PROVE TypeOK' /\ TaskOK'
    <3>1. settled[a].evidence \in Evidence \cup {None}
      BY DEF TypeOK, Record
    <3>2. told' \subseteq Replies
      BY <2>2, <3>1 DEF SettleAgain, Tell, TypeOK, Replies
    <3> QED
      BY <2>2, <3>2 DEF SettleAgain, TypeOK, TaskOK
  <2>3. ASSUME NEW t \in Txs, Pay(t) \/ \E a \in Agreements : AnchorPaymentEvidence(a, t)
        PROVE  TypeOK' /\ TaskOK'
    <3>1. CASE Pay(t)
      BY <3>1 DEF Pay, TypeOK, TaskOK
    <3>2. ASSUME NEW a \in Agreements, AnchorPaymentEvidence(a, t) PROVE TypeOK' /\ TaskOK'
      BY <3>2 DEF AnchorPaymentEvidence, TypeOK, TaskOK
    <3> QED
      BY <2>3, <3>1, <3>2
  <2>4. ASSUME Restart PROVE TypeOK' /\ TaskOK'
    BY <2>4, IdleTyped DEF Restart, TypeOK, TaskOK
  <2>5. ASSUME NEW k \in Tasks, HandleMessage(k) PROVE TypeOK' /\ TaskOK'
    <3>1. ASSUME NEW a \in Agreements, SignFrame(k, a) \/ AcceptFrame(k, a)
          PROVE  TypeOK' /\ TaskOK'
      <4>1. task' \in [Tasks -> Task] /\ TaskOK'
        <5>1. CASE Start(k, "sign", a, None)
          BY <5>1, StartUpdate
        <5>2. CASE Start(k, "accept", a, None)
          BY <5>2, StartUpdate
        <5> QED
          BY <3>1, <5>1, <5>2 DEF SignFrame, AcceptFrame
      <4>2. dup' \subseteq {"sign", "accept", "delivery"} \X Agreements
        BY <3>1 DEF SignFrame, AcceptFrame, Note, TypeOK
      <4> QED
        BY <3>1, <4>1, <4>2 DEF SignFrame, AcceptFrame, TypeOK
    <3>2. ASSUME NEW a \in Agreements, NEW t \in Txs, SettleFrame(k, a, t)
          PROVE  TypeOK' /\ TaskOK'
      <4>1. task' \in [Tasks -> Task] /\ TaskOK'
        BY <3>2, StartUpdate DEF SettleFrame
      <4> QED
        BY <3>2, <4>1 DEF SettleFrame, TypeOK
    <3>3. ASSUME NEW a \in Agreements, NEW recovery \in BOOLEAN, DeliveryFrame(k, a, recovery)
          PROVE  TypeOK' /\ TaskOK'
      <4>1. settled[a] \in Record
        BY DEF TypeOK
      <4>2. CASE a \in Legacy /\ settled[a].delivery # None
        <5>1. told' \subseteq Replies
          BY <3>3, <4>1, <4>2 DEF DeliveryFrame, Tell, TypeOK, Replies, Record
        <5> QED
          BY <3>3, <4>2, <5>1 DEF DeliveryFrame, TypeOK, TaskOK
      <4>3. CASE ~(a \in Legacy /\ settled[a].delivery # None)
        <5> DEFINE s == [Idle EXCEPT !.pc = IF a \in Legacy THEN "work" ELSE "payEvidence",
                                     !.a = a, !.tx = settled[a].tx, !.recovery = recovery]
        <5>1. s \in Task
          BY <4>1 DEF Task, Idle, Stages, Record
        <5>2. TaskFine(s)
          BY DEF TaskFine, Idle
        <5>3. task' = [task EXCEPT ![k] = s]
          BY <3>3, <4>3 DEF DeliveryFrame
        <5> HIDE DEF s
        <5>4. task' \in [Tasks -> Task] /\ TaskOK'
          BY <5>1, <5>2, <5>3, TaskUpdate, FineUpdate
        <5>5. dup' \subseteq {"sign", "accept", "delivery"} \X Agreements
          BY <3>3, <4>3 DEF DeliveryFrame, Note, TypeOK
        <5> QED
          BY <3>3, <4>3, <5>4, <5>5 DEF DeliveryFrame, TypeOK
      <4> QED
        BY <4>2, <4>3
    <3>4. ASSUME NEW a \in Agreements, NEW e \in Evidence \cup {None}, FulfilFrame(k, a, e)
          PROVE  TypeOK' /\ TaskOK'
      <4> DEFINE s == [Idle EXCEPT !.pc = "verifyBundle", !.a = a, !.evidence = e]
      <4>1. s \in Task
        BY DEF Task, Idle, Stages
      <4>2. TaskFine(s)
        BY DEF TaskFine, Idle
      <4>3. task' = [task EXCEPT ![k] = s]
        BY <3>4 DEF FulfilFrame
      <4> HIDE DEF s
      <4>4. task' \in [Tasks -> Task] /\ TaskOK'
        BY <4>1, <4>2, <4>3, TaskUpdate, FineUpdate
      <4> QED
        BY <3>4, <4>4 DEF FulfilFrame, TypeOK
    <3> QED
      BY <2>5, <3>1, <3>2, <3>3, <3>4 DEF HandleMessage
  <2>6. ASSUME NEW k \in Tasks, Resume(k) PROVE TypeOK' /\ TaskOK'
    <3>0. task[k] \in Task /\ TaskFine(task[k])
      BY DEF TypeOK, TaskOK
    <3>1. CASE SignReturns(k) \/ AcceptVerified(k) \/ AcceptRejected(k)
      <4>1. task[k].a \in Agreements
        BY <3>0, <3>1 DEF SignReturns, AcceptVerified, AcceptRejected, At, TaskFine
      <4>2. task' \in [Tasks -> Task] /\ TaskOK'
        BY <3>1, EndUpdate DEF SignReturns, AcceptVerified, AcceptRejected
      <4> QED
        BY <3>1, <4>1, <4>2 DEF SignReturns, AcceptVerified, AcceptRejected, TypeOK
    <3>2. CASE \/ LookupRejected(k) \/ CommitThrows(k) \/ EvidenceRejected(k)
               \/ WorkFails(k) \/ FulfilFails(k)
      <4>1. task' \in [Tasks -> Task] /\ TaskOK'
        BY <3>2, EndUpdate DEF LookupRejected, CommitThrows, EvidenceRejected, WorkFails, FulfilFails
      <4> QED
        BY <3>2, <4>1 DEF LookupRejected, CommitThrows, EvidenceRejected, WorkFails, FulfilFails, TypeOK
    <3>3. CASE LookupOk(k) \/ LookupRetriable(k) \/ BundleVerified(k)
      <4>1. PICK pc \in {"commit", "backoff", "anchorBundle"} :
              /\ Goto(k, pc)
              /\ task[k].pc = IF pc = "anchorBundle" THEN "verifyBundle" ELSE "lookup"
        BY <3>3 DEF LookupOk, LookupRetriable, BundleVerified, At
      <4>2. /\ task' \in [Tasks -> Task] /\ task'[k] = [task[k] EXCEPT !.pc = pc]
            /\ \A j \in Tasks : j # k => task'[j] = task[j]
        <5>1. pc \in Stages
          BY DEF Stages
        <5> QED
          BY <4>1, <5>1, GotoUpdate
      <4>3. TaskFine(task'[k])
        <5>1. task'[k].pc = pc /\ task'[k].a = task[k].a /\ task'[k].tx = task[k].tx
          BY <3>0, <4>2 DEF Task
        <5>2. pc = "commit" \/ pc = "backoff" \/ pc = "anchorBundle"
          OBVIOUS
        <5>3. task[k].a \in Agreements /\ (pc # "anchorBundle" => task[k].tx \in Txs)
          BY <3>0, <4>1, <5>2 DEF TaskFine
        <5> QED
          BY <5>1, <5>2, <5>3 DEF TaskFine
      <4>4. TaskOK'
        BY <4>2, <4>3, FineUpdate
      <4>5. reserved' \subseteq Txs
        BY <3>0, <3>3 DEF LookupOk, LookupRetriable, BundleVerified, At, TaskFine, TypeOK
      <4> QED
        BY <3>3, <4>2, <4>4, <4>5 DEF LookupOk, LookupRetriable, BundleVerified, TypeOK
    <3>4. CASE RetryLookup(k)
      <4>1. CASE task[k].tx \in reserved
        <5>1. task' \in [Tasks -> Task] /\ TaskOK'
          BY <3>4, <4>1, EndUpdate DEF RetryLookup
        <5> QED
          BY <3>4, <4>1, <5>1 DEF RetryLookup, TypeOK
      <4>2. CASE task[k].tx \notin reserved
        <5>1. /\ task' \in [Tasks -> Task] /\ task'[k] = [task[k] EXCEPT !.pc = "lookup"]
              /\ \A j \in Tasks : j # k => task'[j] = task[j]
          BY <3>4, <4>2, GotoUpdate DEF RetryLookup, Stages
        <5>2. TaskFine(task'[k])
          BY <3>0, <3>4, <5>1 DEF RetryLookup, At, TaskFine, Task
        <5>3. TaskOK'
          BY <5>1, <5>2, FineUpdate
        <5>4. overlapped' \subseteq Txs
          BY <3>0, <3>4, <4>2 DEF RetryLookup, At, TaskFine, TypeOK
        <5> QED
          BY <3>4, <5>1, <5>3, <5>4 DEF RetryLookup, TypeOK
      <4> QED
        BY <4>1, <4>2
    <3>5. CASE CommitSettlement(k)
      <4>1. task[k].a \in Agreements /\ task[k].tx \in Txs
        BY <3>0, <3>5 DEF CommitSettlement, At, TaskFine
      <4>2. settled' \in [Agreements -> Record]
        <5>1. [NoRecord EXCEPT !.tx = task[k].tx] \in Record
          BY <4>1 DEF NoRecord, Record
        <5> QED
          BY <3>5, <5>1 DEF CommitSettlement, TypeOK
      <4>3. told' \subseteq Replies
        BY <3>5, <4>1 DEF CommitSettlement, Tell, TypeOK, Replies
      <4>4. task' \in [Tasks -> Task] /\ TaskOK'
        <5>1. CASE End(k)
          BY <5>1, EndUpdate
        <5>2. CASE Goto(k, "work")
          <6>1. /\ task' \in [Tasks -> Task] /\ task'[k] = [task[k] EXCEPT !.pc = "work"]
                /\ \A j \in Tasks : j # k => task'[j] = task[j]
            BY <5>2, GotoUpdate DEF Stages
          <6>2. TaskFine(task'[k])
            BY <3>0, <4>1, <6>1 DEF TaskFine, Task
          <6> QED
            BY <6>1, <6>2, FineUpdate
        <5> QED
          BY <3>5, <5>1, <5>2 DEF CommitSettlement
      <4> QED
        BY <3>5, <4>1, <4>2, <4>3, <4>4 DEF CommitSettlement, TypeOK
    <3>6. CASE EvidenceVerified(k)
      <4>1. task[k].a \in Agreements
        BY <3>0, <3>6 DEF EvidenceVerified, At, TaskFine
      <4>2. CASE settled[task[k].a].delivery # None
        <5>1. told' \subseteq Replies
          BY <3>6, <4>1, <4>2 DEF EvidenceVerified, Tell, TypeOK, Replies, Record
        <5>2. task' \in [Tasks -> Task] /\ TaskOK'
          BY <3>6, <4>2, EndUpdate DEF EvidenceVerified
        <5> QED
          BY <3>6, <5>1, <5>2 DEF EvidenceVerified, TypeOK
      <4>3. CASE settled[task[k].a].delivery = None
        <5>1. /\ task' \in [Tasks -> Task] /\ task'[k] = [task[k] EXCEPT !.pc = "work"]
              /\ \A j \in Tasks : j # k => task'[j] = task[j]
          BY <3>6, <4>3, GotoUpdate DEF EvidenceVerified, Stages
        <5>2. TaskFine(task'[k])
          BY <3>0, <4>1, <5>1 DEF TaskFine, Task
        <5>3. TaskOK'
          BY <5>1, <5>2, FineUpdate
        <5> QED
          BY <3>6, <4>3, <5>1, <5>3 DEF EvidenceVerified, TypeOK
      <4> QED
        BY <4>2, <4>3
    <3>7. CASE WorkReturns(k)
      <4>1. task[k].a \in Agreements
        BY <3>0, <3>7 DEF WorkReturns, At, TaskFine
      <4>2. CASE task[k].a \in Legacy
        <5>1. PICK c \in Contents : Persist(k, c, None)
          BY <3>7, <4>2 DEF WorkReturns
        <5>2. /\ settled' \in [Agreements -> Record] /\ told' \subseteq Replies
              /\ task' \in [Tasks -> Task] /\ TaskOK'
          BY <4>1, <5>1, PersistTyped
        <5> QED
          BY <3>7, <5>1, <5>2 DEF WorkReturns, Persist, TypeOK
      <4>3. CASE task[k].a \notin Legacy
        <5>1. PICK c \in Contents :
                /\ task' = [task EXCEPT ![k].pc = "plan", ![k].content = c,
                          ![k].artifact = IF task[k].recovery THEN artifact[task[k].a] ELSE None]
                /\ UNCHANGED <<store, told>>
          BY <3>7, <4>3 DEF WorkReturns
        <5> DEFINE s == [task[k] EXCEPT !.pc = "plan", !.content = c,
                           !.artifact = IF task[k].recovery THEN artifact[task[k].a] ELSE None]
        <5>2. s \in Task
          BY <3>0, <4>1 DEF Task, Stages, TypeOK
        <5>3. TaskFine(s)
          BY <3>0, <4>1 DEF TaskFine, Task
        <5>4. task' = [task EXCEPT ![k] = s]
          BY <5>1 DEF TypeOK
        <5> HIDE DEF s
        <5>5. task' \in [Tasks -> Task] /\ TaskOK'
          BY <5>2, <5>3, <5>4, TaskUpdate, FineUpdate
        <5> QED
          BY <3>7, <5>1, <5>5 DEF WorkReturns, TypeOK
      <4> QED
        BY <4>2, <4>3
    <3>8. CASE PlanEvidence(k)
      <4> DEFINE c == task[k].content
                 found == IF task[k].recovery THEN evidence[task[k].a] ELSE None
                 reused == task[k].artifact # None
                 fresh == [content |-> c, artifact |-> IF reused THEN task[k].artifact ELSE c]
      <4>1. task[k].a \in Agreements /\ c \in Contents /\ fresh \in Evidence
            /\ found \in Evidence \cup {None}
        BY <3>0, <3>8 DEF PlanEvidence, At, TaskFine, Task, Evidence, TypeOK
      <4>2. CASE Persist(k, c, found)
        <5>1. /\ settled' \in [Agreements -> Record] /\ told' \subseteq Replies
              /\ task' \in [Tasks -> Task] /\ TaskOK'
          BY <4>1, <4>2, PersistTyped
        <5> QED
          BY <3>8, <4>2, <5>1 DEF PlanEvidence, Persist, TypeOK
      <4>3. CASE End(k) /\ UNCHANGED <<store, told>>
        <5>1. task' \in [Tasks -> Task] /\ TaskOK'
          BY <4>3, EndUpdate
        <5> QED
          BY <3>8, <4>3, <5>1 DEF PlanEvidence, TypeOK
      <4>4. CASE /\ task' = [task EXCEPT ![k].evidence = fresh,
                        ![k].pc = IF reused THEN "anchorEvidence" ELSE "anchorArtifact"]
                 /\ UNCHANGED <<store, told>>
        <5> DEFINE s == [task[k] EXCEPT !.evidence = fresh,
                           !.pc = IF reused THEN "anchorEvidence" ELSE "anchorArtifact"]
        <5>1. s \in Task
          BY <3>0, <4>1 DEF Task, Stages
        <5>2. TaskFine(s)
          BY <3>0, <4>1 DEF TaskFine, Task
        <5>3. task' = [task EXCEPT ![k] = s]
          BY <4>4 DEF TypeOK
        <5> HIDE DEF s
        <5>4. task' \in [Tasks -> Task] /\ TaskOK'
          BY <5>1, <5>2, <5>3, TaskUpdate, FineUpdate
        <5> QED
          BY <3>8, <4>4, <5>4 DEF PlanEvidence, TypeOK
      <4> QED
        BY <3>8, <4>2, <4>3, <4>4 DEF PlanEvidence
    <3>9. CASE AnchorArtifact(k)
      <4>1. task[k].a \in Agreements /\ task[k].content \in Contents /\ task[k].evidence \in Evidence
        BY <3>0, <3>9 DEF AnchorArtifact, At, TaskFine
      <4>2. /\ task' \in [Tasks -> Task] /\ task'[k] = [task[k] EXCEPT !.pc = "anchorEvidence"]
            /\ \A j \in Tasks : j # k => task'[j] = task[j]
        BY <3>9, GotoUpdate DEF AnchorArtifact, Stages
      <4>3. TaskFine(task'[k])
        BY <3>0, <4>1, <4>2 DEF TaskFine, Task
      <4>4. TaskOK'
        BY <4>2, <4>3, FineUpdate
      <4>5. artifact' \in [Agreements -> Contents \cup {None}]
        BY <3>9, <4>1 DEF AnchorArtifact, TypeOK
      <4> QED
        BY <3>9, <4>2, <4>4, <4>5 DEF AnchorArtifact, TypeOK
    <3>10. CASE AnchorEvidence(k) \/ AnchorFails(k)
      <4>1. task[k].a \in Agreements /\ task[k].content \in Contents /\ task[k].evidence \in Evidence
        BY <3>0, <3>10 DEF AnchorEvidence, AnchorFails, At, TaskFine
      <4>2. evidence' \in [Agreements -> Evidence \cup {None}]
        BY <3>10, <4>1 DEF AnchorEvidence, AnchorFails, TypeOK
      <4>3. CASE AnchorEvidence(k)
        <5>1. /\ settled' \in [Agreements -> Record] /\ told' \subseteq Replies
              /\ task' \in [Tasks -> Task] /\ TaskOK'
          BY <4>1, <4>3, PersistTyped DEF AnchorEvidence
        <5> QED
          BY <4>2, <4>3, <5>1 DEF AnchorEvidence, Persist, TypeOK
      <4>4. CASE AnchorFails(k)
        <5>1. task' \in [Tasks -> Task] /\ TaskOK'
          BY <4>4, EndUpdate DEF AnchorFails
        <5> QED
          BY <4>2, <4>4, <5>1 DEF AnchorFails, TypeOK
      <4> QED
        BY <3>10, <4>3, <4>4
    <3>11. CASE AnchorBundle(k)
      <4>1. task[k].a \in Agreements /\ task[k].evidence \in Evidence \cup {None}
        BY <3>0, <3>11 DEF AnchorBundle, At, TaskFine, Task
      <4>2. settled' \in [Agreements -> Record]
        <5>1. [settled[task[k].a] EXCEPT !.bundle = {task[k].evidence}] \in Record
          BY <4>1 DEF TypeOK, Record
        <5>2. settled' = [settled EXCEPT ![task[k].a] =
                            [settled[task[k].a] EXCEPT !.bundle = {task[k].evidence}]]
          BY <3>11 DEF AnchorBundle
        <5> QED
          BY <5>1, <5>2 DEF TypeOK
      <4>3. task' \in [Tasks -> Task] /\ TaskOK'
        BY <3>11, EndUpdate DEF AnchorBundle
      <4> QED
        BY <3>11, <4>2, <4>3 DEF AnchorBundle, TypeOK
    <3> QED
      BY <2>6, <3>1, <3>2, <3>3, <3>4, <3>5, <3>6, <3>7, <3>8, <3>9, <3>10, <3>11 DEF Resume
  <2>7. CASE UNCHANGED vars
    BY <2>7 DEF vars, TypeOK, TaskOK
  <2> QED
    BY <2>1, <2>2, <2>3, <2>4, <2>5, <2>6, <2>7 DEF Next
<1> QED
  BY <1>1, <1>2, PTL DEF Spec

-----------------------------------------------------------------------------
(* Payments.  That a payment settles one agreement rests on three things   *)
(* that no single step shows: the gate reserves a native transaction until *)
(* a restart ends every handler that could still look it up; before the    *)
(* reservation at most one handler looks at it unless lookups overlap; and *)
(* once it settled an agreement it is on the durable list.  An x402        *)
(* payment needs none of this: it pays one agreement only.                 *)

Native(k, t) ==
  task[k].pc \in {"lookup", "commit"} /\ task[k].tx = t /\ task[k].a \notin X402

CommitPaid ==
  \A k \in Tasks : task[k].pc = "commit" =>
    /\ task[k].tx \in paid \cap Pays[task[k].a]
    /\ task[k].a \notin X402 => task[k].tx \in reserved
BackoffNative == \A k \in Tasks : task[k].pc = "backoff" => task[k].a \notin X402
OnRecord == \A a \in Agreements : settled[a].tx # None => settled[a].tx \in settledTxs
OneLookup ==
  \A t \in Txs \ overlapped : \A j, k \in Tasks : Native(j, t) /\ Native(k, t) => j = k
Spent ==
  \A t \in Txs \ overlapped : \A a \in Agreements \ X402 : settled[a].tx = t =>
    \A k \in Tasks :
      ~Native(k, t) /\ (task[k].pc = "backoff" /\ task[k].tx = t => t \in reserved)

PayInv ==
  /\ CommitPaid /\ SettledIsPaid /\ BackoffNative /\ OnRecord
  /\ OneLookup /\ Spent /\ OneAgreementPerPayment

(* A step that leaves the payments alone and takes no handler into the     *)
(* verification of one.                                                    *)
Quiet ==
  /\ \A a \in Agreements : settled'[a].tx = settled[a].tx
  /\ UNCHANGED <<settledTxs, reserved, overlapped>> /\ paid \subseteq paid'
  /\ \A j \in Tasks : task'[j] = task[j] \/ task'[j].pc \notin {"lookup", "backoff", "commit"}

LEMMA QuietKeeps == ASSUME PayInv, Quiet PROVE PayInv'
<1> USE DEF PayInv, Quiet
<1>1. CommitPaid' /\ BackoffNative'
  BY DEF CommitPaid, BackoffNative
<1>2. SettledIsPaid' /\ OnRecord' /\ OneAgreementPerPayment'
  BY DEF SettledIsPaid, OnRecord, OneAgreementPerPayment
<1>3. ASSUME NEW k \in Tasks, NEW t, Native(k, t)' PROVE Native(k, t)
  BY <1>3 DEF Native
<1>4. OneLookup'
  BY <1>3 DEF OneLookup
<1>5. Spent'
  BY <1>3 DEF Spent
<1> QED
  BY <1>1, <1>2, <1>4, <1>5

LEMMA EndQuiet ==
  ASSUME TypeOK, TaskOK, NEW k \in Tasks, End(k)
  PROVE  \A j \in Tasks : task'[j] = task[j] \/ task'[j].pc \notin {"lookup", "backoff", "commit"}
BY EndUpdate DEF Idle

LEMMA PersistQuiet ==
  ASSUME TypeOK, TaskOK, NEW k \in Tasks, NEW c, NEW ev, Persist(k, c, ev),
         UNCHANGED <<reserved, paid, overlapped>>
  PROVE  Quiet
<1>1. \A a \in Agreements : settled'[a].tx = settled[a].tx
  BY DEF Persist, TypeOK, Record
<1> QED
  BY <1>1, EndQuiet DEF Quiet, Persist

LEMMA GotoFields ==
  ASSUME TypeOK, NEW k \in Tasks, NEW pc, Goto(k, pc)
  PROVE  /\ task'[k].pc = pc /\ task'[k].a = task[k].a /\ task'[k].tx = task[k].tx
         /\ \A j \in Tasks : j # k => task'[j] = task[j]
BY DEF Goto, TypeOK, Task

(* Steps that are not part of the verification of a payment.               *)
LEMMA OtherSteps ==
  ASSUME TypeOK, TaskOK, Next
  PROVE  \/ Quiet \/ Restart
         \/ \E k \in Tasks : \/ LookupOk(k) \/ LookupRetriable(k) \/ RetryLookup(k)
                            \/ CommitSettlement(k)
                            \/ \E a \in Agreements, t \in Txs : SettleFrame(k, a, t)
<1> USE DEF store, memory, world, history
<1>1. ASSUME NEW a \in Agreements,
             \/ Open(a) \/ SessionFails(a) \/ NegotiationOffers(a)
             \/ FixedReady(a) \/ FixedExpires(a)
      PROVE  Quiet
  BY <1>1 DEF Open, SessionFails, NegotiationOffers, FixedReady, FixedExpires, Quiet
<1>2. ASSUME NEW a \in Agreements, NEW t \in Txs, SettleAgain(a, t) \/ AnchorPaymentEvidence(a, t)
      PROVE  Quiet
  BY <1>2 DEF SettleAgain, AnchorPaymentEvidence, Quiet
<1>3. ASSUME NEW t \in Txs, Pay(t) PROVE Quiet
  BY <1>3 DEF Pay, Quiet
<1>4. ASSUME NEW k \in Tasks, NEW a \in Agreements, SignFrame(k, a) \/ AcceptFrame(k, a) PROVE Quiet
  <2>1. PICK pc \in {"sign", "accept"} :
          task' = [task EXCEPT ![k] = [Idle EXCEPT !.pc = pc, !.a = a, !.tx = None]]
    BY <1>4 DEF SignFrame, AcceptFrame, Start
  <2>2. \A j \in Tasks : task'[j] = task[j] \/ task'[j].pc \notin {"lookup", "backoff", "commit"}
    BY <2>1 DEF TypeOK, Idle
  <2> QED
    BY <1>4, <2>2 DEF SignFrame, AcceptFrame, Quiet
<1>5. ASSUME NEW k \in Tasks, NEW a \in Agreements, NEW r \in BOOLEAN, DeliveryFrame(k, a, r) PROVE Quiet
  <2>1. \A j \in Tasks : task'[j] = task[j] \/ task'[j].pc \notin {"lookup", "backoff", "commit"}
    <3>1. CASE UNCHANGED task
      BY <3>1
    <3>2. CASE task' # task
      <4> DEFINE s == [Idle EXCEPT !.pc = IF a \in Legacy THEN "work" ELSE "payEvidence",
                                   !.a = a, !.tx = settled[a].tx, !.recovery = r]
      <4>1. task' = [task EXCEPT ![k] = s]
        BY <1>5, <3>2 DEF DeliveryFrame
      <4>2. s.pc \in {"work", "payEvidence"}
        BY DEF Idle
      <4> HIDE DEF s
      <4> QED
        BY <4>1, <4>2 DEF TypeOK
    <3> QED
      BY <3>1, <3>2
  <2> QED
    BY <1>5, <2>1 DEF DeliveryFrame, Quiet
<1>6. ASSUME NEW k \in Tasks, NEW a \in Agreements, NEW e, FulfilFrame(k, a, e) PROVE Quiet
  <2>1. \A j \in Tasks : task'[j] = task[j] \/ task'[j].pc \notin {"lookup", "backoff", "commit"}
    BY <1>6 DEF FulfilFrame, TypeOK, Idle
  <2> QED
    BY <1>6, <2>1 DEF FulfilFrame, Quiet
<1>7. ASSUME NEW k \in Tasks, Resume(k)
      PROVE  Quiet \/ LookupOk(k) \/ LookupRetriable(k) \/ RetryLookup(k) \/ CommitSettlement(k)
  <2>1. CASE \/ SignReturns(k) \/ AcceptVerified(k) \/ AcceptRejected(k) \/ LookupRejected(k)
             \/ CommitThrows(k) \/ EvidenceRejected(k) \/ WorkFails(k) \/ AnchorFails(k)
             \/ FulfilFails(k)
    BY <2>1, EndQuiet DEF SignReturns, AcceptVerified, AcceptRejected, LookupRejected,
         CommitThrows, EvidenceRejected, WorkFails, AnchorFails, FulfilFails, Quiet
  <2>2. CASE EvidenceVerified(k)
    <3>1. CASE End(k)
      BY <2>2, <3>1, EndQuiet DEF EvidenceVerified, Quiet
    <3>2. CASE Goto(k, "work")
      <4>1. \A j \in Tasks : task'[j] = task[j] \/ task'[j].pc \notin {"lookup", "backoff", "commit"}
        BY <3>2 DEF Goto, TypeOK, Task
      <4> QED
        BY <2>2, <4>1 DEF EvidenceVerified, Quiet
    <3> QED
      BY <2>2, <3>1, <3>2 DEF EvidenceVerified
  <2>3. CASE WorkReturns(k)
    <3>1. PICK c \in Contents : \/ Persist(k, c, None)
                               \/ /\ task' = [task EXCEPT ![k].pc = "plan", ![k].content = c,
                                    ![k].artifact = IF task[k].recovery THEN artifact[task[k].a] ELSE None]
                                  /\ UNCHANGED <<store, told>>
      BY <2>3 DEF WorkReturns
    <3>2. CASE Persist(k, c, None)
      BY <2>3, <3>2, PersistQuiet DEF WorkReturns
    <3>3. CASE ~Persist(k, c, None)
      <4>1. \A j \in Tasks : task'[j] = task[j] \/ task'[j].pc \notin {"lookup", "backoff", "commit"}
        BY <3>1, <3>3 DEF TypeOK, Task
      <4> QED
        BY <2>3, <3>1, <3>3, <4>1 DEF WorkReturns, Quiet
    <3> QED
      BY <3>2, <3>3
  <2>4. CASE PlanEvidence(k)
    <3>1. CASE End(k) /\ UNCHANGED <<store, told>>
      BY <2>4, <3>1, EndQuiet DEF PlanEvidence, Quiet
    <3>2. CASE Persist(k, task[k].content, IF task[k].recovery THEN evidence[task[k].a] ELSE None)
      BY <2>4, <3>2, PersistQuiet DEF PlanEvidence
    <3>3. CASE /\ \E s : \E pc \in {"anchorEvidence", "anchorArtifact"} :
                    task' = [task EXCEPT ![k].evidence = s, ![k].pc = pc]
               /\ UNCHANGED <<store, told>>
      <4>1. \A j \in Tasks : task'[j] = task[j] \/ task'[j].pc \notin {"lookup", "backoff", "commit"}
        BY <3>3 DEF TypeOK, Task
      <4> QED
        BY <2>4, <3>3, <4>1 DEF PlanEvidence, Quiet
    <3> QED
      BY <2>4, <3>1, <3>2, <3>3 DEF PlanEvidence
  <2>5. CASE AnchorArtifact(k) \/ BundleVerified(k)
    <3>1. \A j \in Tasks : task'[j] = task[j] \/ task'[j].pc \notin {"lookup", "backoff", "commit"}
      BY <2>5 DEF AnchorArtifact, BundleVerified, Goto, TypeOK, Task
    <3> QED
      BY <2>5, <3>1 DEF AnchorArtifact, BundleVerified, Quiet
  <2>6. CASE AnchorEvidence(k)
    BY <2>6, PersistQuiet DEF AnchorEvidence
  <2>7. CASE AnchorBundle(k)
    <3>1. \A a \in Agreements : settled'[a].tx = settled[a].tx
      BY <2>7 DEF AnchorBundle, TypeOK, Record
    <3> QED
      BY <2>7, <3>1, EndQuiet DEF AnchorBundle, Quiet
  <2> QED
    BY <1>7, <2>1, <2>2, <2>3, <2>4, <2>5, <2>6, <2>7 DEF Resume
<1> QED
  BY <1>1, <1>2, <1>3, <1>4, <1>5, <1>6, <1>7 DEF Next, HandleMessage

(* The gate's part of a settlement keeps the payment invariant.            *)
LEMMA SettleFrameKeeps ==
  ASSUME TypeOK, TaskOK, PayInv, NEW k \in Tasks, NEW a \in Agreements, NEW t \in Txs,
         SettleFrame(k, a, t)
  PROVE  PayInv'
<1> USE DEF PayInv, store, memory, world
<1>1. /\ task'[k] = [Idle EXCEPT !.pc = "lookup", !.a = a, !.tx = t]
      /\ \A j \in Tasks : j # k => task'[j] = task[j]
  BY DEF SettleFrame, Start, TypeOK
<1>2. task'[k].pc = "lookup" /\ task'[k].a = a /\ task'[k].tx = t
  BY <1>1 DEF Idle
<1>3. UNCHANGED <<settled, settledTxs, reserved, paid>> /\ overlapped \subseteq overlapped'
  BY DEF SettleFrame
<1>4. CommitPaid' /\ BackoffNative' /\ SettledIsPaid' /\ OnRecord' /\ OneAgreementPerPayment'
  BY <1>1, <1>2, <1>3 DEF CommitPaid, BackoffNative, SettledIsPaid, OnRecord, OneAgreementPerPayment
<1>5. ASSUME NEW j \in Tasks, j # k, a \notin X402, t \notin overlapped', Native(j, t) PROVE FALSE
  <2>1. task[j].pc # "lookup"
    BY <1>5 DEF SettleFrame, Seen, Native
  <2>2. t \in reserved
    BY <1>5, <2>1 DEF Native, CommitPaid
  <2> QED
    BY <1>5, <2>2 DEF SettleFrame, MayVerify
<1>6. ASSUME NEW j \in Tasks, NEW u \in Txs, Native(j, u)'
      PROVE  (j # k /\ Native(j, u)) \/ (j = k /\ u = t /\ a \notin X402)
  BY <1>1, <1>2, <1>6 DEF Native
<1>7. OneLookup'
  BY <1>3, <1>5, <1>6 DEF OneLookup
<1>8. Spent'
  <2> SUFFICES ASSUME NEW u \in Txs \ overlapped', NEW b \in Agreements \ X402, settled'[b].tx = u,
                      NEW j \in Tasks
               PROVE  /\ ~Native(j, u)'
                      /\ task'[j].pc = "backoff" /\ task'[j].tx = u => u \in reserved'
    BY DEF Spent
  <2>1. u # t
    BY <1>3, SellerAssumption DEF OnRecord, SettleFrame, MayVerify
  <2> QED
    BY <1>1, <1>2, <1>3, <1>6, <2>1 DEF Spent
<1> QED
  BY <1>4, <1>7, <1>8

LEMMA LookupKeeps ==
  ASSUME TypeOK, TaskOK, PayInv, NEW k \in Tasks,
         LookupOk(k) \/ LookupRetriable(k) \/ RetryLookup(k)
  PROVE  PayInv'
<1> USE DEF PayInv, store, memory, world, history
<1>0. task[k] \in Task /\ TaskFine(task[k])
  BY DEF TypeOK, TaskOK
<1>1. UNCHANGED <<settled, settledTxs, paid>> /\ overlapped \subseteq overlapped' /\ reserved \subseteq reserved'
  <2>1. CASE LookupOk(k)
    BY <2>1 DEF LookupOk
  <2>2. CASE LookupRetriable(k)
    BY <2>2 DEF LookupRetriable
  <2>3. CASE RetryLookup(k)
    BY <2>3 DEF RetryLookup
  <2> QED
    BY <2>1, <2>2, <2>3
<1>2. CASE LookupOk(k)
  <2>1. /\ task'[k].pc = "commit" /\ task'[k].a = task[k].a /\ task'[k].tx = task[k].tx
        /\ \A j \in Tasks : j # k => task'[j] = task[j]
    BY <1>2, GotoFields DEF LookupOk
  <2>2. CommitPaid' /\ BackoffNative' /\ SettledIsPaid' /\ OnRecord' /\ OneAgreementPerPayment'
    BY <1>1, <1>2, <2>1 DEF LookupOk, CommitPaid, BackoffNative, SettledIsPaid, OnRecord, OneAgreementPerPayment
  <2>3. ASSUME NEW j \in Tasks, NEW u \in Txs, Native(j, u)' PROVE Native(j, u)
    BY <1>2, <2>1, <2>3 DEF Native, LookupOk, At
  <2>4. OneLookup' /\ Spent'
    BY <1>1, <2>1, <2>3 DEF OneLookup, Spent
  <2> QED
    BY <2>2, <2>4
<1>3. CASE LookupRetriable(k)
  <2>1. /\ task'[k].pc = "backoff" /\ task'[k].a = task[k].a /\ task'[k].tx = task[k].tx
        /\ \A j \in Tasks : j # k => task'[j] = task[j]
    BY <1>3, GotoFields DEF LookupRetriable
  <2>2. CommitPaid' /\ BackoffNative' /\ SettledIsPaid' /\ OnRecord' /\ OneAgreementPerPayment'
    BY <1>1, <1>3, <2>1 DEF LookupRetriable, CommitPaid, BackoffNative, SettledIsPaid, OnRecord, OneAgreementPerPayment
  <2>3. ASSUME NEW j \in Tasks, NEW u \in Txs, Native(j, u)' PROVE j # k /\ Native(j, u)
    BY <2>1, <2>3 DEF Native
  <2>4. OneLookup'
    BY <1>1, <2>3 DEF OneLookup
  <2>5. Native(k, task[k].tx)
    BY <1>3 DEF Native, LookupRetriable, At
  <2>6. Spent'
    BY <1>1, <2>1, <2>3, <2>5 DEF Spent
  <2> QED
    BY <2>2, <2>4, <2>6
<1>4. CASE RetryLookup(k) /\ task[k].tx \in reserved
  <2>1. Quiet
    BY <1>1, <1>4, EndQuiet DEF RetryLookup, Quiet
  <2> QED
    BY <2>1, QuietKeeps
<1>5. CASE RetryLookup(k) /\ task[k].tx \notin reserved
  <2> DEFINE t == task[k].tx
  <2>1. /\ task'[k].pc = "lookup" /\ task'[k].a = task[k].a /\ task'[k].tx = t
        /\ \A j \in Tasks : j # k => task'[j] = task[j]
    BY <1>5, GotoFields DEF RetryLookup
  <2>2. CommitPaid' /\ BackoffNative' /\ SettledIsPaid' /\ OnRecord' /\ OneAgreementPerPayment'
    BY <1>1, <2>1 DEF CommitPaid, BackoffNative, SettledIsPaid, OnRecord, OneAgreementPerPayment
  <2>3. ASSUME NEW j \in Tasks, NEW u \in Txs, Native(j, u)'
        PROVE  (j # k /\ Native(j, u)) \/ (j = k /\ u = t)
    BY <2>1, <2>3 DEF Native
  <2>4. ASSUME NEW j \in Tasks, j # k, t \notin overlapped', Native(j, t) PROVE FALSE
    <3>1. task[j].pc # "lookup"
      BY <1>5, <2>4 DEF RetryLookup, Seen, Native
    <3>2. t \in reserved
      BY <2>4, <3>1 DEF Native, CommitPaid
    <3> QED
      BY <1>5, <3>2
  <2>5. OneLookup'
    BY <1>1, <2>3, <2>4 DEF OneLookup
  <2>6. ASSUME NEW a \in Agreements \ X402, settled[a].tx = t, t \in Txs \ overlapped PROVE FALSE
    BY <1>5, <2>6 DEF Spent, RetryLookup, At
  <2>7. Spent'
    BY <1>1, <2>1, <2>3, <2>6 DEF Spent
  <2> QED
    BY <2>2, <2>5, <2>7
<1> QED
  BY <1>2, <1>3, <1>4, <1>5

LEMMA CommitKeeps ==
  ASSUME TypeOK, TaskOK, PayInv, NEW k \in Tasks, CommitSettlement(k)
  PROVE  PayInv'
<1> DEFINE a == task[k].a
           t == task[k].tx
<1> USE DEF PayInv, store, memory, world, history
<1>0. task[k] \in Task /\ a \in Agreements /\ t \in Txs /\ task[k].pc = "commit"
  BY DEF TypeOK, TaskOK, TaskFine, CommitSettlement, At
<1>1. UNCHANGED <<reserved, paid, overlapped>> /\ settledTxs' = settledTxs \cup {t}
  BY DEF CommitSettlement
<1>2. settled' = [settled EXCEPT ![a] = [NoRecord EXCEPT !.tx = t]]
  BY DEF CommitSettlement
<1>3. settled'[a].tx = t /\ \A b \in Agreements : b # a => settled'[b] = settled[b]
  BY <1>0, <1>2 DEF TypeOK, NoRecord
<1>4. /\ task'[k].pc \in {"work", "idle"}
      /\ \A j \in Tasks : j # k => task'[j] = task[j]
  <2>1. CASE End(k)
    BY <2>1, EndUpdate DEF Idle
  <2>2. CASE Goto(k, "work")
    <3>1. "work" \in Stages
      BY DEF Stages
    <3>2. /\ task'[k] = [task[k] EXCEPT !.pc = "work"]
          /\ \A j \in Tasks : j # k => task'[j] = task[j]
      BY <2>2, <3>1, GotoUpdate
    <3>3. [task[k] EXCEPT !.pc = "work"].pc = "work"
      BY <1>0 DEF Task
    <3> QED
      BY <3>2, <3>3
  <2> QED
    BY <2>1, <2>2 DEF CommitSettlement
<1>5. t \in paid \cap Pays[a] /\ (a \notin X402 => t \in reserved)
  BY <1>0 DEF CommitPaid
<1>6. CommitPaid' /\ BackoffNative' /\ SettledIsPaid' /\ OnRecord'
  BY <1>0, <1>1, <1>3, <1>4, <1>5 DEF CommitPaid, BackoffNative, SettledIsPaid, OnRecord
<1>7. ASSUME NEW j \in Tasks, NEW u \in Txs, Native(j, u)' PROVE j # k /\ Native(j, u)
  BY <1>4, <1>7 DEF Native
<1>8. OneLookup'
  BY <1>1, <1>7 DEF OneLookup
<1>9. a \notin X402 => Native(k, t)
  BY <1>0 DEF Native
<1>10. Spent'
  <2> SUFFICES ASSUME NEW u \in Txs \ overlapped', NEW b \in Agreements \ X402, settled'[b].tx = u,
                      NEW j \in Tasks
               PROVE  /\ ~Native(j, u)'
                      /\ task'[j].pc = "backoff" /\ task'[j].tx = u => u \in reserved'
    BY DEF Spent
  <2>1. CASE b = a
    BY <1>1, <1>3, <1>4, <1>5, <1>7, <1>9, <2>1 DEF OneLookup
  <2>2. CASE b # a
    BY <1>1, <1>3, <1>4, <1>7, <2>2 DEF Spent
  <2> QED
    BY <2>1, <2>2
<1>11. ASSUME NEW b \in Agreements, b # a, settled[b].tx = t, t \notin overlapped PROVE FALSE
  <2>1. t \in Pays[b]
    BY <1>0, <1>11, SellerAssumption DEF SettledIsPaid
  <2>2. a \notin X402 /\ b \notin X402
    BY <1>0, <1>5, <1>11, <2>1, SellerAssumption
  <2> QED
    BY <1>0, <1>9, <1>11, <2>2 DEF Spent
<1>12. OneAgreementPerPayment'
  BY <1>1, <1>3, <1>11 DEF OneAgreementPerPayment
<1> QED
  BY <1>6, <1>8, <1>10, <1>12

LEMMA PayInvariant == Spec => []PayInv
<1>1. Init => PayInv
  <2>1. ASSUME Init PROVE \A a \in Agreements : settled[a].tx = None
    BY <2>1 DEF Init, NoRecord
  <2>2. ASSUME Init PROVE \A k \in Tasks : task[k].pc = "idle"
    BY <2>2 DEF Init, Idle
  <2> QED
    BY <2>1, <2>2, SellerAssumption DEF PayInv, CommitPaid, SettledIsPaid, BackoffNative, OnRecord,
         OneLookup, Spent, OneAgreementPerPayment, Native
<1>2. TypeOK /\ TaskOK /\ PayInv /\ [Next]_vars => PayInv'
  <2> SUFFICES ASSUME TypeOK, TaskOK, PayInv, [Next]_vars PROVE PayInv'
    OBVIOUS
  <2>1. CASE Quiet
    BY <2>1, QuietKeeps
  <2>2. CASE Restart
    <3>1. \A k \in Tasks : task'[k].pc = "idle"
      BY <2>2 DEF Restart, Idle
    <3>2. UNCHANGED <<settled, settledTxs, paid, overlapped>>
      BY <2>2 DEF Restart, store, world, history
    <3> QED
      BY <3>1, <3>2 DEF PayInv, CommitPaid, SettledIsPaid, BackoffNative, OnRecord,
           OneLookup, Spent, OneAgreementPerPayment, Native
  <2>3. CASE UNCHANGED vars
    BY <2>3, QuietKeeps DEF vars, store, memory, world, history, Quiet
  <2> QED
    BY <2>1, <2>2, <2>3, OtherSteps, LookupKeeps, CommitKeeps, SettleFrameKeeps
<1> QED
  BY <1>1, <1>2, Typing, PTL DEF Spec

(* SellerDaemon.settle and the gate: an agreement is settled only by a     *)
(* confirmed transaction that pays it, and a transaction settles one       *)
(* agreement unless two of its lookups overlapped, for any number of       *)
(* handlers and restarts.                                                  *)
THEOREM PaymentSafety == Spec => [](SettledIsPaid /\ OneAgreementPerPayment)
<1>1. PayInv => SettledIsPaid /\ OneAgreementPerPayment
  BY DEF PayInv
<1> QED
  BY <1>1, PayInvariant, PTL

(* An agreement is settled only by a confirmed transaction that pays it    *)
(* (SellerDaemon.settle, PaymentGate.verifyAndReserve).                    *)
THEOREM SettledByPayment == Spec => []SettledIsPaid
<1>1. SettledIsPaid /\ OneAgreementPerPayment => SettledIsPaid
  OBVIOUS
<1> QED
  BY <1>1, PaymentSafety, PTL

-----------------------------------------------------------------------------
(* Work.  A delivery handler looks at the record and the payment evidence  *)
(* once, when it starts; that both still stand when its work comes out is  *)
(* because a settlement and an evidence are never taken back.              *)

TaskWork(k) ==
  /\ task[k].pc \in Delivering => settled[task[k].a].tx # None
  /\ task[k].pc = "payEvidence" => task[k].tx # None
  /\ task[k].pc \in Delivering \ {"payEvidence"} /\ task[k].a \in Standard => payEvidence[task[k].a] # None

WorkInv ==
  /\ \A k \in Tasks : TaskWork(k)
  /\ \A a \in Agreements : artifact[a] # None => settled[a].tx # None /\ (a \in Standard => payEvidence[a] # None)

Steady ==
  /\ \A a \in Agreements : settled[a].tx # None => settled'[a].tx # None
  /\ \A a \in Agreements : payEvidence[a] # None => payEvidence'[a] # None

(* A handler that stays, is elsewhere, or goes on with its delivery.       *)
GoesOn(k) ==
  \/ task'[k] = task[k]
  \/ task'[k].pc \notin Delivering
  \/ /\ task'[k].a = task[k].a
     /\ task[k].pc \in Delivering \ {"payEvidence"} /\ task'[k].pc \in Delivering \ {"payEvidence"}

LEMMA WorkKept ==
  ASSUME TaskOK, WorkInv, Steady,
         \A k \in Tasks : GoesOn(k) \/ TaskWork(k)',
         \A a \in Agreements : artifact'[a] = artifact[a] \/ (settled[a].tx # None /\ (a \in Standard => payEvidence[a] # None))
  PROVE  WorkInv'
<1>1. ASSUME NEW k \in Tasks, GoesOn(k) PROVE TaskWork(k)'
  <2>1. task[k].pc \in Delivering => task[k].a \in Agreements
    BY DEF TaskOK, TaskFine, Delivering
  <2>2. TaskWork(k)
    BY DEF WorkInv
  <2>3. CASE task'[k] = task[k]
    BY <2>1, <2>2, <2>3 DEF TaskWork, Steady, Delivering
  <2>4. CASE task'[k].pc \notin Delivering
    BY <2>4 DEF TaskWork, Delivering
  <2>5. CASE /\ task'[k].a = task[k].a
             /\ task[k].pc \in Delivering \ {"payEvidence"} /\ task'[k].pc \in Delivering \ {"payEvidence"}
    BY <2>1, <2>2, <2>5 DEF TaskWork, Steady
  <2> QED
    BY <1>1, <2>3, <2>4, <2>5 DEF GoesOn
<1>2. \A a \in Agreements : artifact'[a] # None => settled'[a].tx # None /\ (a \in Standard => payEvidence'[a] # None)
  BY DEF WorkInv, Steady
<1> QED
  BY <1>1, <1>2 DEF WorkInv

LEMMA EndGoesOn ==
  ASSUME TypeOK, TaskOK, NEW k \in Tasks, End(k)
  PROVE  \A j \in Tasks : GoesOn(j)
BY EndUpdate DEF Idle, GoesOn, Delivering

LEMMA PersistGoesOn ==
  ASSUME TypeOK, TaskOK, NEW k \in Tasks, NEW c, NEW ev, Persist(k, c, ev)
  PROVE  /\ \A j \in Tasks : GoesOn(j)
         /\ \A a \in Agreements : settled'[a].tx = settled[a].tx
<1>1. \A a \in Agreements : settled'[a].tx = settled[a].tx
  BY DEF Persist, TypeOK, Record
<1> QED
  BY <1>1, EndGoesOn DEF Persist

LEMMA WorkInvariant == Spec => []WorkInv
<1>1. Init => WorkInv
  BY DEF Init, Idle, WorkInv, TaskWork, Delivering
<1>2. TypeOK /\ TaskOK /\ WorkInv /\ [Next]_vars => WorkInv'
  <2> SUFFICES ASSUME TypeOK, TaskOK, WorkInv, [Next]_vars PROVE WorkInv'
    OBVIOUS
  <2> USE DEF store, memory, world, history
  <2>0. \A k \in Tasks : task[k] \in Task /\ TaskFine(task[k]) /\ TaskWork(k)
    BY DEF TypeOK, TaskOK, WorkInv
  <2>1. ASSUME NEW a \in Agreements, NEW t \in Txs, SettleAgain(a, t)
        PROVE  WorkInv'
    <3>1. UNCHANGED <<task, settled, payEvidence, artifact>>
      BY <2>1 DEF SettleAgain
    <3> QED
      BY <3>1, WorkKept DEF Steady, GoesOn
  <2>2. ASSUME NEW a \in Agreements, NEW t \in Txs, AnchorPaymentEvidence(a, t)
        PROVE  WorkInv'
    <3>1. UNCHANGED <<task, settled, artifact>> /\ \A b \in Agreements : payEvidence[b] # None => payEvidence'[b] # None
      BY <2>2, SellerAssumption DEF AnchorPaymentEvidence, TypeOK
    <3> QED
      BY <3>1, WorkKept DEF Steady, GoesOn
  <2>3. ASSUME NEW k \in Tasks, NEW a \in Agreements, SignFrame(k, a) \/ AcceptFrame(k, a) \/ \E t \in Txs : SettleFrame(k, a, t)
        PROVE  WorkInv'
    <3>1. PICK pc \in {"sign", "accept", "lookup"}, t \in Txs \cup {None} :
            task' = [task EXCEPT ![k] = [Idle EXCEPT !.pc = pc, !.a = a, !.tx = t]]
      BY <2>3 DEF SignFrame, AcceptFrame, SettleFrame, Start
    <3>2. \A j \in Tasks : GoesOn(j)
      BY <3>1 DEF TypeOK, Idle, GoesOn, Delivering
    <3>3. UNCHANGED <<settled, payEvidence, artifact>>
      BY <2>3 DEF SignFrame, AcceptFrame, SettleFrame
    <3> QED
      BY <3>2, <3>3, WorkKept DEF Steady
  <2>4. ASSUME NEW k \in Tasks, NEW a \in Agreements, NEW recovery \in BOOLEAN, DeliveryFrame(k, a, recovery)
        PROVE  WorkInv'
    <3>1. UNCHANGED <<settled, payEvidence, artifact>> /\ settled[a].tx # None
      BY <2>4 DEF DeliveryFrame
    <3>2. CASE UNCHANGED task
      BY <3>1, <3>2, WorkKept DEF Steady, GoesOn
    <3>3. CASE ~ UNCHANGED task
      <4> DEFINE s == [Idle EXCEPT !.pc = IF a \in Legacy THEN "work" ELSE "payEvidence",
                                   !.a = a, !.tx = settled[a].tx, !.recovery = recovery]
      <4>1. task' = [task EXCEPT ![k] = s]
        BY <2>4, <3>3 DEF DeliveryFrame
      <4>2. /\ s.pc = IF a \in Legacy THEN "work" ELSE "payEvidence"
            /\ s.a = a /\ s.tx = settled[a].tx
        BY DEF Idle
      <4> HIDE DEF s
      <4>3. task'[k] = s /\ \A j \in Tasks : j # k => task'[j] = task[j]
        BY <4>1 DEF TypeOK
      <4>4. TaskWork(k)'
        BY <3>1, <4>2, <4>3 DEF TaskWork, Delivering, Standard
      <4> QED
        BY <3>1, <4>3, <4>4, WorkKept DEF Steady, GoesOn
    <3> QED
      BY <3>2, <3>3
  <2>5. ASSUME NEW k \in Tasks, NEW a \in Agreements, NEW e, FulfilFrame(k, a, e)
        PROVE  WorkInv'
    <3>1. \A j \in Tasks : GoesOn(j)
      BY <2>5 DEF FulfilFrame, TypeOK, Idle, GoesOn, Delivering
    <3>2. UNCHANGED <<settled, payEvidence, artifact>>
      BY <2>5 DEF FulfilFrame
    <3> QED
      BY <3>1, <3>2, WorkKept DEF Steady
  <2>6. ASSUME NEW k \in Tasks, End(k), UNCHANGED <<payEvidence, artifact>>,
               \A a \in Agreements : settled'[a].tx = settled[a].tx
        PROVE  WorkInv'
    BY <2>6, EndGoesOn, WorkKept DEF Steady
  <2>7. ASSUME NEW k \in Tasks, NEW pc, Goto(k, pc), pc \notin Delivering,
               UNCHANGED <<settled, payEvidence, artifact>>
        PROVE  WorkInv'
    <3>1. \A j \in Tasks : GoesOn(j)
      BY <2>7, GotoFields DEF GoesOn
    <3> QED
      BY <2>7, <3>1, WorkKept DEF Steady
  <2>8. ASSUME NEW k \in Tasks, CommitSettlement(k)
        PROVE  WorkInv'
    <3>1. /\ task[k].a \in Agreements /\ task[k].tx \in Txs /\ task[k].tx # None
          /\ UNCHANGED <<payEvidence, artifact>>
          /\ (End(k) \/ (Goto(k, "work") /\ task[k].a \in Legacy))
      BY <2>0, <2>8, SellerAssumption DEF CommitSettlement, At, TaskFine
    <3>2. settled'[task[k].a].tx # None /\ Steady
      BY <2>8, <3>1 DEF CommitSettlement, NoRecord, TypeOK, Steady
    <3>3. CASE End(k)
      BY <3>1, <3>2, <3>3, EndGoesOn, WorkKept
    <3>4. CASE Goto(k, "work") /\ task[k].a \in Legacy
      <4>1. /\ task'[k].pc = "work" /\ task'[k].a = task[k].a
            /\ \A j \in Tasks : j # k => task'[j] = task[j]
        BY <3>4, GotoFields
      <4>2. TaskWork(k)'
        BY <3>2, <3>4, <4>1 DEF TaskWork, Delivering, Standard
      <4> QED
        BY <3>1, <3>2, <4>1, <4>2, WorkKept DEF GoesOn
    <3> QED
      BY <3>1, <3>3, <3>4
  <2>9. ASSUME NEW k \in Tasks, EvidenceVerified(k)
        PROVE  WorkInv'
    <3>1. /\ task[k].pc = "payEvidence" /\ task[k].a \in Agreements /\ payEvidence[task[k].a] = task[k].tx
          /\ UNCHANGED <<settled, payEvidence, artifact>> /\ (End(k) \/ Goto(k, "work"))
      BY <2>0, <2>9 DEF EvidenceVerified, At, TaskFine
    <3>2. settled[task[k].a].tx # None /\ task[k].tx # None
      BY <2>0, <3>1 DEF TaskWork, Delivering
    <3>3. CASE End(k)
      BY <2>6, <3>1, <3>3
    <3>4. CASE Goto(k, "work")
      <4>1. /\ task'[k].pc = "work" /\ task'[k].a = task[k].a
            /\ \A j \in Tasks : j # k => task'[j] = task[j]
        BY <3>4, GotoFields
      <4>2. TaskWork(k)'
        BY <3>1, <3>2, <4>1 DEF TaskWork, Delivering
      <4> QED
        BY <3>1, <4>1, <4>2, WorkKept DEF Steady, GoesOn
    <3> QED
      BY <3>1, <3>3, <3>4
  <2>10. ASSUME NEW k \in Tasks, NEW c, NEW ev, Persist(k, c, ev), UNCHANGED <<payEvidence, artifact>>
         PROVE  WorkInv'
    BY <2>10, PersistGoesOn, WorkKept DEF Steady
  <2>11. ASSUME NEW k \in Tasks, NEW s, task' = [task EXCEPT ![k] = s], s.a = task[k].a,
                task[k].pc \in Delivering \ {"payEvidence"}, s.pc \in Delivering \ {"payEvidence"},
                UNCHANGED <<settled, payEvidence, artifact>>
         PROVE  WorkInv'
    <3>1. \A j \in Tasks : GoesOn(j)
      BY <2>11 DEF TypeOK, GoesOn
    <3> QED
      BY <2>11, <3>1, WorkKept DEF Steady
  <2>12. ASSUME NEW k \in Tasks, WorkReturns(k)
         PROVE  WorkInv'
    <3>1. PICK c \in Contents :
            \/ Persist(k, c, None)
            \/ /\ task' = [task EXCEPT ![k].pc = "plan", ![k].content = c,
                            ![k].artifact = IF task[k].recovery THEN artifact[task[k].a] ELSE None]
               /\ UNCHANGED settled
      BY <2>12 DEF WorkReturns
    <3> DEFINE s == [task[k] EXCEPT !.pc = "plan", !.content = c,
                       !.artifact = IF task[k].recovery THEN artifact[task[k].a] ELSE None]
    <3>2. UNCHANGED <<payEvidence, artifact>> /\ task[k].pc = "work"
      BY <2>12 DEF WorkReturns, At
    <3>3. s.a = task[k].a /\ s.pc = "plan"
      BY <2>0 DEF Task
    <3>4. CASE task' = [task EXCEPT ![k].pc = "plan", ![k].content = c,
                         ![k].artifact = IF task[k].recovery THEN artifact[task[k].a] ELSE None]
               /\ UNCHANGED settled
      <4>1. task' = [task EXCEPT ![k] = s]
        BY <3>4 DEF TypeOK
      <4> HIDE DEF s
      <4> QED
        BY <2>11, <3>2, <3>3, <3>4, <4>1 DEF Delivering
    <3> QED
      BY <2>10, <3>1, <3>2, <3>4
  <2>13. ASSUME NEW k \in Tasks, PlanEvidence(k)
         PROVE  WorkInv'
    <3> DEFINE a == task[k].a
               c == task[k].content
               found == IF task[k].recovery THEN evidence[a] ELSE None
               reused == task[k].artifact # None
               fresh == [content |-> c, artifact |-> IF reused THEN task[k].artifact ELSE c]
               s == [task[k] EXCEPT !.evidence = fresh,
                       !.pc = IF reused THEN "anchorEvidence" ELSE "anchorArtifact"]
    <3>1. UNCHANGED <<payEvidence, artifact>> /\ task[k].pc = "plan"
      BY <2>13 DEF PlanEvidence, At
    <3>2. CASE Persist(k, c, found)
      BY <2>10, <3>1, <3>2
    <3>3. CASE End(k) /\ UNCHANGED settled
      BY <2>6, <3>1, <3>3
    <3>4. CASE /\ task' = [task EXCEPT ![k].evidence = fresh,
                        ![k].pc = IF reused THEN "anchorEvidence" ELSE "anchorArtifact"]
               /\ UNCHANGED settled
      <4>1. s.a = task[k].a /\ s.pc \in {"anchorEvidence", "anchorArtifact"}
        BY <2>0 DEF Task
      <4>2. task' = [task EXCEPT ![k] = s]
        BY <3>4 DEF TypeOK
      <4> HIDE DEF s
      <4> QED
        BY <2>11, <3>1, <3>4, <4>1, <4>2 DEF Delivering
    <3> QED
      BY <2>13, <3>2, <3>3, <3>4 DEF PlanEvidence
  <2>14. ASSUME NEW k \in Tasks, AnchorArtifact(k)
         PROVE  WorkInv'
    <3>1. /\ task[k].pc = "anchorArtifact" /\ task[k].a \in Agreements
          /\ UNCHANGED <<settled, payEvidence>> /\ Goto(k, "anchorEvidence")
          /\ artifact' = [artifact EXCEPT ![task[k].a] = task[k].content]
      BY <2>0, <2>14 DEF AnchorArtifact, At, TaskFine
    <3>2. settled[task[k].a].tx # None /\ (task[k].a \in Standard => payEvidence[task[k].a] # None)
      BY <2>0, <3>1 DEF TaskWork, Delivering
    <3>3. \A a \in Agreements : a # task[k].a => artifact'[a] = artifact[a]
      BY <3>1 DEF TypeOK
    <3>4. \A j \in Tasks : GoesOn(j)
      BY <3>1, GotoFields DEF GoesOn, Delivering
    <3> QED
      BY <3>1, <3>2, <3>3, <3>4, WorkKept DEF Steady
  <2>15. CASE Restart
    <3>1. \A j \in Tasks : GoesOn(j)
      BY <2>15 DEF Restart, Idle, GoesOn, Delivering
    <3>2. UNCHANGED <<settled, payEvidence, artifact>>
      BY <2>15 DEF Restart
    <3> QED
      BY <3>1, <3>2, WorkKept DEF Steady
  <2>16. CASE UNCHANGED vars
    BY <2>16, WorkKept DEF vars, Steady, GoesOn
  <2>17. ASSUME NEW k \in Tasks, Resume(k)
         PROVE  WorkInv'
    <3>1. CASE \/ SignReturns(k) \/ AcceptVerified(k) \/ AcceptRejected(k) \/ LookupRejected(k)
               \/ CommitThrows(k) \/ EvidenceRejected(k) \/ WorkFails(k) \/ AnchorFails(k)
               \/ FulfilFails(k)
      BY <2>6, <3>1 DEF SignReturns, AcceptVerified, AcceptRejected, LookupRejected,
           CommitThrows, EvidenceRejected, WorkFails, AnchorFails, FulfilFails
    <3>2. CASE LookupOk(k) \/ LookupRetriable(k) \/ BundleVerified(k)
      BY <2>7, <3>2 DEF LookupOk, LookupRetriable, BundleVerified, Delivering
    <3>3. CASE RetryLookup(k)
      BY <2>6, <2>7, <3>3 DEF RetryLookup, Delivering
    <3>4. CASE AnchorBundle(k)
      <4>1. \A a \in Agreements : settled'[a].tx = settled[a].tx
        BY <3>4 DEF AnchorBundle, TypeOK, Record
      <4> QED
        BY <2>6, <3>4, <4>1 DEF AnchorBundle
    <3>5. CASE AnchorEvidence(k)
      BY <2>10, <3>5 DEF AnchorEvidence
    <3> QED
      BY <2>8, <2>9, <2>12, <2>13, <2>14, <2>17, <3>1, <3>2, <3>3, <3>4, <3>5 DEF Resume
  <2>18. ASSUME NEW k \in Tasks, HandleMessage(k)
         PROVE  WorkInv'
    BY <2>3, <2>4, <2>5, <2>18 DEF HandleMessage
  <2>19. ASSUME NEW a \in Agreements,
                Open(a) \/ SessionFails(a) \/ NegotiationOffers(a) \/ FixedReady(a) \/ FixedExpires(a)
         PROVE  WorkInv'
    <3>1. UNCHANGED <<task, settled, payEvidence, artifact>>
      BY <2>19 DEF Open, SessionFails, NegotiationOffers, FixedReady, FixedExpires
    <3> QED
      BY <3>1, WorkKept DEF Steady, GoesOn
  <2>20. ASSUME NEW t \in Txs, Pay(t)
         PROVE  WorkInv'
    <3>1. UNCHANGED <<task, settled, payEvidence, artifact>>
      BY <2>20 DEF Pay
    <3> QED
      BY <3>1, WorkKept DEF Steady, GoesOn
  <2> QED
    BY <2>1, <2>2, <2>15, <2>16, <2>17, <2>18, <2>19, <2>20 DEF Next
<1> QED
  BY <1>1, <1>2, Typing, PTL DEF Spec

(* Work starts, and its result is anchored, only for an agreement that is  *)
(* settled, and for a Standard one only after the buyer anchored payment   *)
(* evidence, whatever other handlers of the agreement do meanwhile         *)
(* (SellerDaemon.retryDelivery, runDelivery).                              *)
THEOREM WorkAfterPayment == Spec => []WorkIsPaidFor
<1>1. WorkInv => WorkIsPaidFor
  BY DEF WorkInv, TaskWork, WorkIsPaidFor, Overlaps
<1> QED
  BY <1>1, WorkInvariant, PTL

-----------------------------------------------------------------------------
(* Places.  OnePlace needs three things it does not say: a channel id is   *)
(* used once, the handlers of an undisturbed agreement are alone, and its  *)
(* offer stays in the store until the one handler that accepts it is done. *)

Signs(k, a) == task[k].pc = "sign" /\ task[k].a = a
Accepts(k, a) == task[k].pc = "accept" /\ task[k].a = a

PlaceOf(a) ==
  /\ a \in sessions \cup fixedSessions \/ (\E k \in Tasks : Signs(k, a)) => a \notin offered \cup accepted \cup settledHashes
  /\ a \in offered => a \notin accepted \cup settledHashes
  /\ a \in accepted => a \notin settledHashes
  /\ \A k \in Tasks : Accepts(k, a) => a \in offered
  /\ \A j, k \in Tasks : (Signs(j, a) /\ Signs(k, a)) \/ (Accepts(j, a) /\ Accepts(k, a)) => j = k

ChannelInv ==
  /\ sessions \cup fixedSessions \cup offered \cup accepted \cup settledHashes \subseteq channels
  /\ sessions \cap fixedSessions = {}
  /\ \A k \in Tasks : task[k].pc = "sign" =>
       task[k].a \in channels /\ task[k].a \notin sessions /\ task[k].a \in FixedPrice
  /\ \A k \in Tasks : task[k].pc = "accept" => task[k].a \in channels

Alone(a) == <<"sign", a>> \notin dup /\ <<"accept", a>> \notin dup

PlaceInv == ChannelInv /\ \A a \in Agreements : Alone(a) => PlaceOf(a)

(* A handler that stays, or neither signs nor accepts now.                 *)
Elsewhere(k) == task'[k] = task[k] \/ task'[k].pc \notin {"sign", "accept"}

LEMMA StillKeeps ==
  ASSUME PlaceInv, UNCHANGED <<channels, offered, accepted, settledHashes>>,
         sessions' \subseteq sessions, fixedSessions' \subseteq fixedSessions, dup \subseteq dup',
         \A k \in Tasks : Elsewhere(k)
  PROVE  PlaceInv'
<1>1. ChannelInv'
  BY DEF PlaceInv, ChannelInv, Elsewhere
<1>2. ASSUME NEW a \in Agreements, Alone(a)' PROVE PlaceOf(a)'
  <2>1. PlaceOf(a)
    BY <1>2 DEF PlaceInv, Alone
  <2>2. \A k \in Tasks : (Signs(k, a)' => Signs(k, a)) /\ (Accepts(k, a)' => Accepts(k, a))
    BY DEF Elsewhere, Signs, Accepts
  <2> QED
    BY <2>1, <2>2 DEF PlaceOf
<1> QED
  BY <1>1, <1>2 DEF PlaceInv

LEMMA EndElsewhere ==
  ASSUME TypeOK, TaskOK, NEW k \in Tasks, End(k)
  PROVE  \A j \in Tasks : Elsewhere(j)
BY EndUpdate DEF Idle, Elsewhere

LEMMA MoveElsewhere ==
  ASSUME TypeOK, NEW k \in Tasks, NEW s, task' = [task EXCEPT ![k] = s], s.pc \notin {"sign", "accept"}
  PROVE  \A j \in Tasks : Elsewhere(j)
BY DEF TypeOK, Elsewhere

LEMMA GotoElsewhere ==
  ASSUME TypeOK, NEW k \in Tasks, NEW pc, Goto(k, pc), pc \notin {"sign", "accept"}
  PROVE  \A j \in Tasks : Elsewhere(j)
BY GotoFields DEF Elsewhere

(* Steps that open, sign, offer, accept or settle nothing.                 *)
StillStep ==
  /\ UNCHANGED <<channels, offered, accepted, settledHashes>>
  /\ sessions' \subseteq sessions /\ fixedSessions' \subseteq fixedSessions /\ dup \subseteq dup'
  /\ \A k \in Tasks : Elsewhere(k)

LEMMA StillFrames ==
  ASSUME TypeOK, TaskOK, NEW k \in Tasks, NEW a \in Agreements,
         \/ \E t \in Txs : SettleFrame(k, a, t)
         \/ \E r \in BOOLEAN : DeliveryFrame(k, a, r)
         \/ \E e : FulfilFrame(k, a, e)
  PROVE  StillStep
<1> USE DEF store, memory, world, history
<1>1. ASSUME NEW t \in Txs, SettleFrame(k, a, t) PROVE StillStep
  <2>1. task' = [task EXCEPT ![k] = [Idle EXCEPT !.pc = "lookup", !.a = a, !.tx = t]]
    BY <1>1 DEF SettleFrame, Start
  <2>2. \A j \in Tasks : Elsewhere(j)
    BY <2>1 DEF TypeOK, Idle, Elsewhere
  <2> QED
    BY <1>1, <2>2 DEF SettleFrame, StillStep
<1>2. ASSUME NEW r \in BOOLEAN, DeliveryFrame(k, a, r) PROVE StillStep
  <2> DEFINE s == [Idle EXCEPT !.pc = IF a \in Legacy THEN "work" ELSE "payEvidence",
                               !.a = a, !.tx = settled[a].tx, !.recovery = r]
  <2>1. UNCHANGED task \/ task' = [task EXCEPT ![k] = s]
    BY <1>2 DEF DeliveryFrame
  <2>2. s.pc \in {"work", "payEvidence"}
    BY DEF Idle
  <2> HIDE DEF s
  <2>3. \A j \in Tasks : Elsewhere(j)
    BY <2>1, <2>2, MoveElsewhere DEF Elsewhere
  <2>4. dup \subseteq dup'
    BY <1>2 DEF DeliveryFrame, Note
  <2> QED
    BY <1>2, <2>3, <2>4 DEF DeliveryFrame, StillStep
<1>3. ASSUME NEW e, FulfilFrame(k, a, e) PROVE StillStep
  <2>1. \A j \in Tasks : Elsewhere(j)
    BY <1>3 DEF FulfilFrame, TypeOK, Idle, Elsewhere
  <2> QED
    BY <1>3, <2>1 DEF FulfilFrame, StillStep
<1> QED
  BY <1>1, <1>2, <1>3

LEMMA StillResume ==
  ASSUME TypeOK, TaskOK, NEW k \in Tasks, Resume(k)
  PROVE  StillStep \/ SignReturns(k) \/ AcceptVerified(k) \/ CommitSettlement(k)
<1> USE DEF store, memory, world, history
<1>0. task[k] \in Task
  BY DEF TypeOK
<1>1. CASE \/ AcceptRejected(k) \/ LookupRejected(k) \/ CommitThrows(k) \/ EvidenceRejected(k)
           \/ WorkFails(k) \/ AnchorFails(k) \/ FulfilFails(k) \/ AnchorBundle(k)
  BY <1>1, EndElsewhere DEF AcceptRejected, LookupRejected, CommitThrows, EvidenceRejected, WorkFails,
       AnchorFails, FulfilFails, AnchorBundle, StillStep
<1>2. CASE LookupOk(k) \/ LookupRetriable(k) \/ BundleVerified(k)
  BY <1>2, GotoElsewhere DEF LookupOk, LookupRetriable, BundleVerified, StillStep
<1>3. CASE RetryLookup(k)
  BY <1>3, EndElsewhere, GotoElsewhere DEF RetryLookup, StillStep
<1>4. CASE EvidenceVerified(k)
  BY <1>4, EndElsewhere, GotoElsewhere DEF EvidenceVerified, StillStep
<1>5. ASSUME NEW c, NEW ev, Persist(k, c, ev), UNCHANGED <<sessions, fixedSessions, dup>>
      PROVE  StillStep
  BY <1>5, EndElsewhere DEF Persist, StillStep
<1>6. CASE WorkReturns(k)
  <2>1. PICK c \in Contents :
          \/ Persist(k, c, None)
          \/ /\ task' = [task EXCEPT ![k].pc = "plan", ![k].content = c,
                          ![k].artifact = IF task[k].recovery THEN artifact[task[k].a] ELSE None]
             /\ UNCHANGED store
    BY <1>6 DEF WorkReturns
  <2> DEFINE s == [task[k] EXCEPT !.pc = "plan", !.content = c,
                     !.artifact = IF task[k].recovery THEN artifact[task[k].a] ELSE None]
  <2>2. UNCHANGED <<sessions, fixedSessions, dup>>
    BY <1>6 DEF WorkReturns
  <2>3. CASE task' = [task EXCEPT ![k].pc = "plan", ![k].content = c,
                       ![k].artifact = IF task[k].recovery THEN artifact[task[k].a] ELSE None]
             /\ UNCHANGED store
    <3>1. task' = [task EXCEPT ![k] = s]
      BY <2>3 DEF TypeOK
    <3>2. s.pc = "plan"
      BY <1>0 DEF Task
    <3> HIDE DEF s
    <3> QED
      BY <2>2, <2>3, <3>1, <3>2, MoveElsewhere DEF StillStep
  <2> QED
    BY <1>5, <2>1, <2>2, <2>3
<1>7. CASE PlanEvidence(k)
  <2> DEFINE a == task[k].a
             c == task[k].content
             found == IF task[k].recovery THEN evidence[a] ELSE None
             reused == task[k].artifact # None
             fresh == [content |-> c, artifact |-> IF reused THEN task[k].artifact ELSE c]
             s == [task[k] EXCEPT !.evidence = fresh,
                     !.pc = IF reused THEN "anchorEvidence" ELSE "anchorArtifact"]
  <2>1. UNCHANGED <<sessions, fixedSessions, dup>>
    BY <1>7 DEF PlanEvidence
  <2>2. CASE Persist(k, c, found)
    BY <1>5, <2>1, <2>2
  <2>3. CASE End(k) /\ UNCHANGED store
    BY <2>1, <2>3, EndElsewhere DEF StillStep
  <2>4. CASE /\ task' = [task EXCEPT ![k].evidence = fresh,
                      ![k].pc = IF reused THEN "anchorEvidence" ELSE "anchorArtifact"]
             /\ UNCHANGED store
    <3>1. task' = [task EXCEPT ![k] = s]
      BY <2>4 DEF TypeOK
    <3>2. s.pc \in {"anchorEvidence", "anchorArtifact"}
      BY <1>0 DEF Task
    <3> HIDE DEF s
    <3> QED
      BY <2>1, <2>4, <3>1, <3>2, MoveElsewhere DEF StillStep
  <2> QED
    BY <1>7, <2>2, <2>3, <2>4 DEF PlanEvidence
<1>8. CASE AnchorArtifact(k)
  BY <1>8, GotoElsewhere DEF AnchorArtifact, StillStep
<1>9. CASE AnchorEvidence(k)
  BY <1>5, <1>9 DEF AnchorEvidence
<1> QED
  BY <1>1, <1>2, <1>3, <1>4, <1>6, <1>7, <1>8, <1>9 DEF Resume

LEMMA OpeningKeeps ==
  ASSUME TypeOK, TaskOK, PlaceInv, NEW a \in Agreements,
         Open(a) \/ NegotiationOffers(a) \/ FixedReady(a)
  PROVE  PlaceInv'
<1> USE DEF store, memory, world, history
<1>1. UNCHANGED <<task, dup, accepted, settledHashes>>
  BY DEF Open, NegotiationOffers, FixedReady
<1>2. \A b, k : (Signs(k, b)' <=> Signs(k, b)) /\ (Accepts(k, b)' <=> Accepts(k, b))
  BY <1>1 DEF Signs, Accepts
<1>3. \A b \in Agreements : Alone(b)' => PlaceOf(b)
  BY <1>1 DEF PlaceInv, Alone
<1>4. CASE Open(a)
  <2>1. /\ a \notin channels /\ channels' = channels \cup {a} /\ sessions' = sessions \cup {a}
        /\ UNCHANGED <<offered, fixedSessions>>
    BY <1>4 DEF Open
  <2>2. ChannelInv'
    BY <1>1, <2>1 DEF PlaceInv, ChannelInv
  <2>3. a \notin offered \cup accepted \cup settledHashes
    BY <2>1 DEF PlaceInv, ChannelInv
  <2>4. ASSUME NEW b \in Agreements, Alone(b)' PROVE PlaceOf(b)'
    BY <1>1, <1>2, <1>3, <2>1, <2>3, <2>4 DEF PlaceOf
  <2> QED
    BY <2>2, <2>4 DEF PlaceInv
<1>5. CASE NegotiationOffers(a)
  <2>1. /\ a \in sessions /\ a \notin FixedPrice /\ offered' = offered \cup {a} /\ sessions' = sessions \ {a}
        /\ UNCHANGED <<channels, fixedSessions>>
    BY <1>5 DEF NegotiationOffers
  <2>2. ChannelInv'
    BY <1>1, <2>1 DEF PlaceInv, ChannelInv
  <2>3. a \notin fixedSessions /\ \A k \in Tasks : ~ Signs(k, a)
    BY <2>1 DEF PlaceInv, ChannelInv, Signs
  <2>4. ASSUME NEW b \in Agreements, Alone(b)' PROVE PlaceOf(b)'
    BY <1>1, <1>2, <1>3, <2>1, <2>3, <2>4 DEF PlaceOf
  <2> QED
    BY <2>2, <2>4 DEF PlaceInv
<1>6. CASE FixedReady(a)
  <2>1. /\ a \in sessions /\ a \in FixedPrice /\ sessions' = sessions \ {a}
        /\ fixedSessions' = fixedSessions \cup {a} /\ UNCHANGED <<channels, offered>>
    BY <1>6 DEF FixedReady
  <2>2. ChannelInv'
    BY <1>1, <2>1 DEF PlaceInv, ChannelInv
  <2>4. ASSUME NEW b \in Agreements, Alone(b)' PROVE PlaceOf(b)'
    BY <1>1, <1>2, <1>3, <2>1, <2>4 DEF PlaceOf
  <2> QED
    BY <2>2, <2>4 DEF PlaceInv
<1> QED
  BY <1>4, <1>5, <1>6

LEMMA FrameKeeps ==
  ASSUME TypeOK, TaskOK, PlaceInv, NEW k \in Tasks, NEW a \in Agreements,
         SignFrame(k, a) \/ AcceptFrame(k, a)
  PROVE  PlaceInv'
<1> USE DEF store, memory, world, history
<1>1. UNCHANGED <<channels, offered, accepted, settledHashes, sessions, fixedSessions>>
  BY DEF SignFrame, AcceptFrame
<1>2. PICK pc \in {"sign", "accept"} :
        /\ task' = [task EXCEPT ![k] = [Idle EXCEPT !.pc = pc, !.a = a, !.tx = None]]
        /\ dup' = (IF Overlaps({pc}, a) THEN dup \cup {<<pc, a>>} ELSE dup)
        /\ pc = "sign" => a \in fixedSessions
        /\ pc = "accept" => a \in offered
  BY DEF SignFrame, AcceptFrame, Start, Note
<1>3. /\ task'[k].pc = pc /\ task'[k].a = a
      /\ \A j \in Tasks : j # k => task'[j] = task[j]
  BY <1>2 DEF TypeOK, Idle
<1>4. ChannelInv'
  <2>1. a \in channels /\ (pc = "sign" => a \notin sessions /\ a \in FixedPrice)
    BY <1>2 DEF PlaceInv, ChannelInv, TypeOK
  <2>2. \A j \in Tasks : task'[j].pc = "sign" =>
          task'[j].a \in channels /\ task'[j].a \notin sessions /\ task'[j].a \in FixedPrice
    BY <1>3, <2>1 DEF PlaceInv, ChannelInv
  <2>3. \A j \in Tasks : task'[j].pc = "accept" => task'[j].a \in channels
    BY <1>3, <2>1 DEF PlaceInv, ChannelInv
  <2> QED
    BY <1>1, <2>2, <2>3 DEF PlaceInv, ChannelInv
<1>5. ASSUME NEW b \in Agreements, Alone(b)' PROVE PlaceOf(b)'
  <2>1. PlaceOf(b)
    BY <1>2, <1>5 DEF PlaceInv, Alone
  <2>2. CASE b # a
    <3>1. \A j \in Tasks : (Signs(j, b)' => Signs(j, b)) /\ (Accepts(j, b)' => Accepts(j, b))
      BY <1>3, <2>2 DEF Signs, Accepts
    <3> QED
      BY <1>1, <2>1, <3>1 DEF PlaceOf
  <2>3. CASE b = a
    <3>1. ~ Overlaps({pc}, a)
      BY <1>2, <1>5, <2>3 DEF Alone
    <3>2. CASE pc = "sign"
      <4>1. \A j \in Tasks : ~ Signs(j, a)
        BY <3>1, <3>2 DEF Overlaps, Signs
      <4>2. \A j \in Tasks : (Signs(j, a)' => j = k) /\ (Accepts(j, a)' => Accepts(j, a))
        BY <1>3, <3>2, <4>1 DEF Signs, Accepts
      <4> QED
        BY <1>1, <1>2, <2>1, <2>3, <3>2, <4>2 DEF PlaceOf
    <3>3. CASE pc = "accept"
      <4>1. \A j \in Tasks : ~ Accepts(j, a)
        BY <3>1, <3>3 DEF Overlaps, Accepts
      <4>2. \A j \in Tasks : (Accepts(j, a)' => j = k) /\ (Signs(j, a)' => Signs(j, a))
        BY <1>3, <3>3, <4>1 DEF Signs, Accepts
      <4> QED
        BY <1>1, <1>2, <2>1, <2>3, <3>3, <4>2 DEF PlaceOf
    <3> QED
      BY <3>2, <3>3
  <2> QED
    BY <2>2, <2>3
<1> QED
  BY <1>4, <1>5 DEF PlaceInv

LEMMA ReturnKeeps ==
  ASSUME TypeOK, TaskOK, PlaceInv, NEW k \in Tasks, NEW a, a = task[k].a,
         SignReturns(k) \/ AcceptVerified(k) \/ CommitSettlement(k)
  PROVE  PlaceInv'
<1> USE DEF store, memory, world, history
<1>1. /\ a \in Agreements /\ dup' = dup /\ channels' = channels /\ sessions' = sessions
      /\ \A j \in Tasks : Elsewhere(j)
  <2>1. task[k].pc \in {"sign", "accept", "commit"} /\ (End(k) \/ Goto(k, "work"))
    BY DEF SignReturns, AcceptVerified, CommitSettlement, At
  <2>2. \A j \in Tasks : Elsewhere(j)
    BY <2>1, EndElsewhere, GotoElsewhere
  <2>3. a \in Agreements
    BY <2>1 DEF TaskOK, TaskFine
  <2> QED
    BY <2>2, <2>3 DEF SignReturns, AcceptVerified, CommitSettlement
<1>2. \A b \in Agreements : Alone(b)' => PlaceOf(b)
  BY <1>1 DEF PlaceInv, Alone
<1>3. \A b \in Agreements, j \in Tasks : (Signs(j, b)' => Signs(j, b)) /\ (Accepts(j, b)' => Accepts(j, b))
  BY <1>1 DEF Elsewhere, Signs, Accepts
<1>4. CASE SignReturns(k)
  <2>1. /\ offered' \in {offered, offered \cup {a}} /\ fixedSessions' = fixedSessions \ {a}
        /\ UNCHANGED <<accepted, settledHashes>> /\ Signs(k, a) /\ End(k)
    BY <1>4 DEF SignReturns, At, Signs
  <2>2. a \in channels /\ a \notin sessions
    BY <2>1 DEF PlaceInv, ChannelInv, Signs
  <2>3. ChannelInv'
    BY <1>1, <2>1, <2>2 DEF PlaceInv, ChannelInv, Elsewhere
  <2>4. ~ Signs(k, a)'
    BY <2>1, EndUpdate DEF Idle, Signs
  <2>5. ASSUME NEW b \in Agreements, Alone(b)' PROVE PlaceOf(b)'
    <3>1. PlaceOf(b)
      BY <1>2, <2>5
    <3>2. CASE b # a
      BY <1>1, <1>3, <2>1, <3>1, <3>2 DEF PlaceOf
    <3>3. CASE b = a
      <4>1. \A j \in Tasks : ~ Signs(j, a)'
        BY <1>1, <1>3, <2>1, <2>4, <3>1, <3>3 DEF PlaceOf
      <4>2. a \notin offered \cup accepted \cup settledHashes
        BY <2>1, <3>1, <3>3 DEF PlaceOf
      <4> QED
        BY <1>1, <1>3, <2>1, <2>2, <3>1, <3>3, <4>1, <4>2 DEF PlaceOf
    <3> QED
      BY <3>2, <3>3
  <2> QED
    BY <2>3, <2>5 DEF PlaceInv
<1>5. CASE AcceptVerified(k)
  <2>1. /\ offered' = offered \ {a} /\ accepted' = accepted \cup {a}
        /\ UNCHANGED <<fixedSessions, settledHashes>> /\ Accepts(k, a) /\ End(k)
    BY <1>5 DEF AcceptVerified, At, Accepts
  <2>2. a \in channels
    BY <2>1 DEF PlaceInv, ChannelInv, Accepts
  <2>3. ChannelInv'
    BY <1>1, <2>1, <2>2 DEF PlaceInv, ChannelInv, Elsewhere
  <2>4. ~ Accepts(k, a)'
    BY <2>1, EndUpdate DEF Idle, Accepts
  <2>5. ASSUME NEW b \in Agreements, Alone(b)' PROVE PlaceOf(b)'
    <3>1. PlaceOf(b)
      BY <1>2, <2>5
    <3>2. CASE b # a
      BY <1>1, <1>3, <2>1, <3>1, <3>2 DEF PlaceOf
    <3>3. CASE b = a
      <4>1. \A j \in Tasks : ~ Accepts(j, a)'
        BY <1>1, <1>3, <2>1, <2>4, <3>1, <3>3 DEF PlaceOf
      <4>2. a \in offered
        BY <2>1, <3>1, <3>3 DEF PlaceOf
      <4> QED
        BY <1>1, <1>3, <2>1, <3>1, <3>3, <4>1, <4>2 DEF PlaceOf
    <3> QED
      BY <3>2, <3>3
  <2> QED
    BY <2>3, <2>5 DEF PlaceInv
<1>6. CASE CommitSettlement(k)
  <2>1. /\ a \in accepted /\ accepted' = accepted \ {a} /\ settledHashes' = settledHashes \cup {a}
        /\ UNCHANGED <<fixedSessions, offered>>
    BY <1>6 DEF CommitSettlement
  <2>2. ChannelInv'
    BY <1>1, <2>1 DEF PlaceInv, ChannelInv, Elsewhere
  <2>3. ASSUME NEW b \in Agreements, Alone(b)' PROVE PlaceOf(b)'
    <3>1. PlaceOf(b)
      BY <1>2, <2>3
    <3> QED
      BY <1>1, <1>3, <2>1, <3>1 DEF PlaceOf
  <2> QED
    BY <2>2, <2>3 DEF PlaceInv
<1> QED
  BY <1>4, <1>5, <1>6

LEMMA PlaceInvariant == Spec => []PlaceInv
<1>1. Init => PlaceInv
  BY DEF Init, Idle, PlaceInv, ChannelInv, PlaceOf, Signs, Accepts
<1>2. TypeOK /\ TaskOK /\ PlaceInv /\ [Next]_vars => PlaceInv'
  <2> SUFFICES ASSUME TypeOK, TaskOK, PlaceInv, [Next]_vars PROVE PlaceInv'
    OBVIOUS
  <2> USE DEF store, memory, world, history
  <2>1. ASSUME NEW a \in Agreements, SessionFails(a) \/ FixedExpires(a) PROVE PlaceInv'
    BY <2>1, StillKeeps DEF SessionFails, FixedExpires, Elsewhere
  <2>2. ASSUME NEW a \in Agreements, NEW t \in Txs, SettleAgain(a, t) \/ AnchorPaymentEvidence(a, t) PROVE PlaceInv'
    BY <2>2, StillKeeps DEF SettleAgain, AnchorPaymentEvidence, Elsewhere
  <2>3. ASSUME NEW t \in Txs, Pay(t) PROVE PlaceInv'
    BY <2>3, StillKeeps DEF Pay, Elsewhere
  <2>4. CASE Restart
    <3>1. \A j \in Tasks : Elsewhere(j)
      BY <2>4 DEF Restart, Idle, Elsewhere
    <3> QED
      BY <2>4, <3>1, StillKeeps DEF Restart
  <2>5. CASE UNCHANGED vars
    BY <2>5, StillKeeps DEF vars, Elsewhere
  <2>6. ASSUME NEW k \in Tasks, HandleMessage(k) PROVE PlaceInv'
    <3>1. PICK a \in Agreements :
            \/ SignFrame(k, a) \/ AcceptFrame(k, a)
            \/ \E t \in Txs : SettleFrame(k, a, t)
            \/ \E r \in BOOLEAN : DeliveryFrame(k, a, r)
            \/ \E e : FulfilFrame(k, a, e)
      BY <2>6 DEF HandleMessage
    <3>2. CASE SignFrame(k, a) \/ AcceptFrame(k, a)
      BY <3>2, FrameKeeps
    <3>3. CASE ~(SignFrame(k, a) \/ AcceptFrame(k, a))
      <4>1. StillStep
        BY <3>1, <3>3, StillFrames
      <4> QED
        BY <4>1, StillKeeps DEF StillStep
    <3> QED
      BY <3>2, <3>3
  <2>7. ASSUME NEW k \in Tasks, Resume(k) PROVE PlaceInv'
    <3>1. StillStep \/ SignReturns(k) \/ AcceptVerified(k) \/ CommitSettlement(k)
      BY <2>7, StillResume
    <3>2. CASE StillStep
      BY <3>2, StillKeeps DEF StillStep
    <3>3. \E a : a = task[k].a
      OBVIOUS
    <3> QED
      BY <3>1, <3>2, <3>3, ReturnKeeps
  <2> QED
    BY <2>1, <2>2, <2>3, <2>4, <2>5, <2>6, <2>7, OpeningKeeps DEF Next
<1> QED
  BY <1>1, <1>2, Typing, PTL DEF Spec

(* Unless sign or accept frames of it overlapped, an agreement is in one   *)
(* place: on a channel, being signed, offered, accepted or settled,        *)
(* whatever the number of handlers and restarts (SellerStateStore).        *)
THEOREM PlaceSafety == Spec => []OnePlace
<1>1. PlaceInv => OnePlace
  BY DEF PlaceInv, PlaceOf, OnePlace, Undisturbed, Alone, Overlaps, Signs
<1> QED
  BY <1>1, PlaceInvariant, PTL

-----------------------------------------------------------------------------
(* What the buyer was told.  A record is written twice only if its         *)
(* agreement was accepted again after it was settled, which PlaceInv       *)
(* excludes as long as its sign and accept frames did not overlap.         *)

DurableInv ==
  /\ \A a \in Agreements : settled[a].tx # None => a \in settledHashes
  /\ \A a \in Agreements, t \in Txs : <<"settled", a, t>> \in told =>
       /\ a \in settledHashes /\ t \in settledTxs
       /\ Alone(a) => settled[a].tx = t
  /\ \A a \in Agreements, e \in Evidence \cup {None} : <<"delivered", a, e>> \in told =>
       /\ a \in settledHashes
       /\ Alone(a) => settled[a].delivery # None

(* Every step but a settlement only adds to the records, and tells what    *)
(* they say.                                                               *)
Adds ==
  /\ UNCHANGED <<settledHashes, settledTxs>> /\ dup \subseteq dup'
  /\ \A a \in Agreements : /\ settled'[a].tx = settled[a].tx
                           /\ settled[a].delivery # None => settled'[a].delivery # None
  /\ \A a \in Agreements, t \in Txs : <<"settled", a, t>> \in told' =>
       <<"settled", a, t>> \in told \/ settled[a].tx = t
  /\ \A a \in Agreements, e \in Evidence \cup {None} : <<"delivered", a, e>> \in told' =>
       \/ <<"delivered", a, e>> \in told
       \/ settled[a].tx # None /\ settled'[a].delivery # None

LEMMA AddsKeeps ==
  ASSUME DurableInv, OnRecord, Adds
  PROVE  DurableInv'
<1>1. \A a \in Agreements : Alone(a)' => Alone(a)
  BY DEF Adds, Alone
<1>2. \A a \in Agreements : settled'[a].tx # None => a \in settledHashes'
  BY DEF Adds, DurableInv
<1>3. ASSUME NEW a \in Agreements, NEW t \in Txs, <<"settled", a, t>> \in told'
      PROVE  /\ a \in settledHashes' /\ t \in settledTxs'
             /\ Alone(a)' => settled'[a].tx = t
  <2>1. t # None
    BY SellerAssumption
  <2>2. <<"settled", a, t>> \in told \/ settled[a].tx = t
    BY <1>3 DEF Adds
  <2> QED
    BY <1>1, <2>1, <2>2 DEF Adds, DurableInv, OnRecord
<1>4. ASSUME NEW a \in Agreements, NEW e \in Evidence \cup {None}, <<"delivered", a, e>> \in told'
      PROVE  /\ a \in settledHashes'
             /\ Alone(a)' => settled'[a].delivery # None
  <2>1. \/ <<"delivered", a, e>> \in told
        \/ settled[a].tx # None /\ settled'[a].delivery # None
    BY <1>4 DEF Adds
  <2> QED
    BY <1>1, <2>1 DEF Adds, DurableInv
<1> QED
  BY <1>2, <1>3, <1>4 DEF DurableInv

LEMMA SettlementKeeps ==
  ASSUME TypeOK, TaskOK, PlaceInv, DurableInv, NEW k \in Tasks, CommitSettlement(k)
  PROVE  DurableInv'
<1>1. PICK a, t : a = task[k].a /\ t = task[k].tx
  OBVIOUS
<1>2. /\ a \in Agreements /\ t \in Txs /\ a \in accepted
      /\ settledHashes' = settledHashes \cup {a} /\ settledTxs' = settledTxs \cup {t}
      /\ settled' = [settled EXCEPT ![a] = [NoRecord EXCEPT !.tx = t]]
      /\ told' = told \cup {<<"settled", a, t>>} \/ told' = told
      /\ dup' = dup
  BY <1>1 DEF CommitSettlement, Tell, At, TaskOK, TaskFine, history
<1>3. /\ settled'[a].tx = t /\ \A b \in Agreements : b # a => settled'[b] = settled[b]
  BY <1>2 DEF TypeOK, NoRecord
<1>4. Alone(a) => a \notin settledHashes
  BY <1>2 DEF PlaceInv, PlaceOf
<1>5. \A b \in Agreements : Alone(b)' <=> Alone(b)
  BY <1>2 DEF Alone
<1>6. ASSUME NEW b \in Agreements, NEW u \in Txs, <<"settled", b, u>> \in told'
      PROVE  /\ b \in settledHashes' /\ u \in settledTxs'
             /\ Alone(b)' => settled'[b].tx = u
  <2>1. CASE <<"settled", b, u>> \in told
    BY <1>2, <1>3, <1>4, <1>5, <2>1 DEF DurableInv
  <2>2. CASE <<"settled", b, u>> = <<"settled", a, t>>
    <3>1. b = a /\ u = t
      BY <2>2
    <3> QED
      BY <1>2, <1>3, <3>1
  <2> QED
    BY <1>2, <1>6, <2>1, <2>2
<1>7. ASSUME NEW b \in Agreements, NEW e \in Evidence \cup {None}, <<"delivered", b, e>> \in told'
      PROVE  /\ b \in settledHashes'
             /\ Alone(b)' => settled'[b].delivery # None
  <2>1. <<"delivered", b, e>> \in told
    <3>1. <<"delivered", b, e>> # <<"settled", a, t>>
      OBVIOUS
    <3> QED
      BY <1>2, <1>7, <3>1
  <2> QED
    BY <1>2, <1>3, <1>4, <1>5, <2>1 DEF DurableInv
<1>8. \A b \in Agreements : settled'[b].tx # None => b \in settledHashes'
  BY <1>2, <1>3 DEF DurableInv
<1> QED
  BY <1>6, <1>7, <1>8 DEF DurableInv

LEMMA PersistAdds ==
  ASSUME TypeOK, NEW k \in Tasks, NEW c \in Contents, NEW ev, Persist(k, c, ev), UNCHANGED dup,
         task[k].a \in Agreements, settled[task[k].a].tx # None
  PROVE  Adds
<1>1. PICK a : a = task[k].a
  OBVIOUS
<1>2. /\ settled' = [settled EXCEPT ![a].delivery = c, ![a].evidence = ev]
      /\ told' = told \cup {<<"delivered", a, ev>>} \/ told' = told
      /\ UNCHANGED <<settledHashes, settledTxs>> /\ a \in Agreements /\ settled[a].tx # None
  BY <1>1 DEF Persist, TryTell, Tell
<1>3. c # None
  BY SellerAssumption
<1>4. /\ \A b \in Agreements : settled'[b].tx = settled[b].tx
      /\ settled'[a].delivery # None /\ \A b \in Agreements : b # a => settled'[b] = settled[b]
  BY <1>2, <1>3 DEF TypeOK, Record
<1>5. ASSUME NEW b \in Agreements, NEW t \in Txs, <<"settled", b, t>> \in told'
      PROVE  <<"settled", b, t>> \in told
  <2>1. <<"settled", b, t>> # <<"delivered", a, ev>>
    OBVIOUS
  <2> QED
    BY <1>2, <1>5, <2>1
<1>6. ASSUME NEW b \in Agreements, NEW e \in Evidence \cup {None}, <<"delivered", b, e>> \in told'
      PROVE  \/ <<"delivered", b, e>> \in told
             \/ settled[b].tx # None /\ settled'[b].delivery # None
  <2>1. CASE <<"delivered", b, e>> = <<"delivered", a, ev>>
    <3>1. b = a
      BY <2>1
    <3> QED
      BY <1>2, <1>4, <3>1
  <2> QED
    BY <1>2, <1>6, <2>1
<1> QED
  BY <1>2, <1>4, <1>5, <1>6 DEF Adds

(* A delivery on record is sent (again).                                   *)
LEMMA ResendAdds ==
  ASSUME NEW a \in Agreements, settled[a].tx # None, settled[a].delivery # None,
         UNCHANGED <<settled, settledHashes, settledTxs>>, dup \subseteq dup',
         \A b \in Agreements, t \in Txs :
            <<"settled", b, t>> \in told' => <<"settled", b, t>> \in told \/ (b = a /\ settled[a].tx = t),
         \A b \in Agreements, e \in Evidence \cup {None} :
            <<"delivered", b, e>> \in told' => <<"delivered", b, e>> \in told \/ b = a
  PROVE  Adds
BY DEF Adds

(* A step that changes no record and tells nothing.                        *)
LEMMA SilentAdds ==
  ASSUME UNCHANGED <<settledHashes, settledTxs, told>>, dup \subseteq dup',
         \A a \in Agreements : settled'[a].tx = settled[a].tx /\ settled'[a].delivery = settled[a].delivery
  PROVE  Adds
BY DEF Adds

LEMMA StepAdds ==
  ASSUME TypeOK, TaskOK, WorkInv, [Next]_vars
  PROVE  Adds \/ \E k \in Tasks : CommitSettlement(k)
<1> USE DEF store, memory, world, history
<1>0. \A k \in Tasks : task[k] \in Task /\ TaskFine(task[k]) /\ TaskWork(k)
  BY DEF TypeOK, TaskOK, WorkInv
<1>1. ASSUME NEW a \in Agreements, NEW t \in Txs, AnchorPaymentEvidence(a, t) PROVE Adds
  BY <1>1, SilentAdds DEF AnchorPaymentEvidence
<1>2. ASSUME NEW a \in Agreements,
             Open(a) \/ SessionFails(a) \/ NegotiationOffers(a) \/ FixedReady(a) \/ FixedExpires(a)
      PROVE  Adds
  BY <1>2, SilentAdds DEF Open, SessionFails, NegotiationOffers, FixedReady, FixedExpires
<1>3. ASSUME NEW t \in Txs, Pay(t) PROVE Adds
  BY <1>3, SilentAdds DEF Pay
<1>4. CASE Restart \/ UNCHANGED vars
  BY <1>4, SilentAdds DEF Restart, vars
<1>5. ASSUME NEW a \in Agreements, NEW t \in Txs, SettleAgain(a, t) PROVE Adds
  <2>1. settled[a].tx = t /\ t # None /\ UNCHANGED <<settled, settledHashes, settledTxs, dup>>
    BY <1>5, SellerAssumption DEF SettleAgain
  <2>2. CASE told' = told \cup {<<"settled", a, t>>}
    <3>1. \A b \in Agreements, u \in Txs : <<"settled", b, u>> \in told' => <<"settled", b, u>> \in told \/ (b = a /\ u = t)
      BY <2>2
    <3>2. \A b \in Agreements, e \in Evidence \cup {None} : <<"delivered", b, e>> \in told' => <<"delivered", b, e>> \in told
      BY <2>2
    <3> QED
      BY <2>1, <3>1, <3>2 DEF Adds
  <2>3. CASE /\ a \in Legacy /\ settled[a].delivery # None
             /\ told' = told \cup {<<"settled", a, t>>, <<"delivered", a, settled[a].evidence>>}
    <3>1. \A b \in Agreements, u \in Txs :
             <<"settled", b, u>> \in told' => <<"settled", b, u>> \in told \/ (b = a /\ settled[a].tx = u)
      BY <2>1, <2>3
    <3>2. \A b \in Agreements, e \in Evidence \cup {None} :
             <<"delivered", b, e>> \in told' => <<"delivered", b, e>> \in told \/ b = a
      BY <2>1, <2>3
    <3> QED
      BY <2>1, <2>3, <3>1, <3>2, ResendAdds
  <2> QED
    BY <1>5, <2>2, <2>3 DEF SettleAgain, Tell
<1>6. ASSUME NEW k \in Tasks, NEW a \in Agreements,
             SignFrame(k, a) \/ AcceptFrame(k, a) \/ (\E t \in Txs : SettleFrame(k, a, t)) \/ \E e : FulfilFrame(k, a, e)
      PROVE  Adds
  BY <1>6, SilentAdds DEF SignFrame, AcceptFrame, SettleFrame, FulfilFrame, Note
<1>7. ASSUME NEW k \in Tasks, NEW a \in Agreements, NEW r \in BOOLEAN, DeliveryFrame(k, a, r) PROVE Adds
  <2>1. UNCHANGED <<settled, settledHashes, settledTxs>> /\ dup \subseteq dup' /\ settled[a].tx # None
    BY <1>7 DEF DeliveryFrame, Note
  <2>2. CASE settled[a].delivery # None /\ told' = told \cup {<<"delivered", a, settled[a].evidence>>}
    <3>1. \A b \in Agreements, u \in Txs :
             <<"settled", b, u>> \in told' => <<"settled", b, u>> \in told \/ (b = a /\ settled[a].tx = u)
      BY <2>1, <2>2
    <3>2. \A b \in Agreements, e \in Evidence \cup {None} :
             <<"delivered", b, e>> \in told' => <<"delivered", b, e>> \in told \/ b = a
      BY <2>1, <2>2
    <3> QED
      BY <2>1, <2>2, <3>1, <3>2, ResendAdds
  <2>3. CASE told' = told
    BY <2>1, <2>3, SilentAdds
  <2> QED
    BY <1>7, <2>2, <2>3 DEF DeliveryFrame, Tell
<1>8. ASSUME NEW k \in Tasks, NEW c \in Contents, NEW ev, Persist(k, c, ev), UNCHANGED dup,
             task[k].pc \in {"work", "plan", "anchorEvidence"}
      PROVE  Adds
  <2>1. task[k].a \in Agreements /\ settled[task[k].a].tx # None
    BY <1>0, <1>8 DEF TaskFine, TaskWork, Delivering
  <2> QED
    BY <1>8, <2>1, PersistAdds
<1>9. ASSUME NEW k \in Tasks, Resume(k)
      PROVE  Adds \/ CommitSettlement(k)
  <2>1. CASE \/ SignReturns(k) \/ AcceptVerified(k) \/ AcceptRejected(k) \/ LookupRejected(k)
             \/ CommitThrows(k) \/ EvidenceRejected(k) \/ WorkFails(k) \/ AnchorFails(k) \/ FulfilFails(k)
    BY <2>1, SilentAdds DEF SignReturns, AcceptVerified, AcceptRejected, LookupRejected,
         CommitThrows, EvidenceRejected, WorkFails, AnchorFails, FulfilFails
  <2>2. CASE LookupOk(k) \/ LookupRetriable(k) \/ RetryLookup(k) \/ BundleVerified(k) \/ AnchorArtifact(k)
    BY <2>2, SilentAdds DEF LookupOk, LookupRetriable, RetryLookup, BundleVerified, AnchorArtifact
  <2>3. CASE AnchorBundle(k)
    <3>1. \A a \in Agreements : settled'[a].tx = settled[a].tx /\ settled'[a].delivery = settled[a].delivery
      BY <2>3 DEF AnchorBundle, TypeOK, Record
    <3> QED
      BY <2>3, <3>1, SilentAdds DEF AnchorBundle
  <2>4. CASE EvidenceVerified(k)
    <3>1. PICK a : a = task[k].a
      OBVIOUS
    <3>2. a \in Agreements /\ settled[a].tx # None /\ UNCHANGED <<settled, settledHashes, settledTxs, dup>>
      BY <1>0, <2>4, <3>1 DEF EvidenceVerified, At, TaskFine, TaskWork, Delivering
    <3>3. CASE settled[a].delivery # None /\ told' = told \cup {<<"delivered", a, settled[a].evidence>>}
      <4>1. \A b \in Agreements, u \in Txs :
               <<"settled", b, u>> \in told' => <<"settled", b, u>> \in told \/ (b = a /\ settled[a].tx = u)
        BY <3>2, <3>3
      <4>2. \A b \in Agreements, e \in Evidence \cup {None} :
               <<"delivered", b, e>> \in told' => <<"delivered", b, e>> \in told \/ b = a
        BY <3>2, <3>3
      <4> QED
        BY <3>2, <3>3, <4>1, <4>2, ResendAdds
    <3>4. CASE told' = told
      BY <3>2, <3>4, SilentAdds
    <3> QED
      BY <2>4, <3>1, <3>3, <3>4 DEF EvidenceVerified, Tell
  <2>5. CASE WorkReturns(k)
    <3>1. task[k].pc = "work" /\ UNCHANGED dup /\ \E c \in Contents : Persist(k, c, None) \/ UNCHANGED <<store, told>>
      BY <2>5 DEF WorkReturns, At
    <3>2. CASE UNCHANGED <<store, told>>
      BY <3>1, <3>2, SilentAdds
    <3> QED
      BY <1>8, <3>1, <3>2
  <2>6. CASE PlanEvidence(k)
    <3>1. task[k].pc = "plan" /\ UNCHANGED dup /\ ((\E ev : Persist(k, task[k].content, ev)) \/ UNCHANGED <<store, told>>)
      BY <2>6 DEF PlanEvidence, At
    <3>2. task[k].content \in Contents
      BY <1>0, <3>1 DEF TaskFine
    <3>3. CASE UNCHANGED <<store, told>>
      BY <3>1, <3>3, SilentAdds
    <3> QED
      BY <1>8, <3>1, <3>2, <3>3
  <2>7. CASE AnchorEvidence(k)
    <3>1. task[k].content \in Contents /\ task[k].pc = "anchorEvidence" /\ UNCHANGED dup
      BY <1>0, <2>7 DEF AnchorEvidence, At, TaskFine
    <3> QED
      BY <1>8, <2>7, <3>1 DEF AnchorEvidence
  <2> QED
    BY <1>9, <2>1, <2>2, <2>3, <2>4, <2>5, <2>6, <2>7 DEF Resume
<1>10. ASSUME NEW k \in Tasks, HandleMessage(k) PROVE Adds
  BY <1>6, <1>7, <1>10 DEF HandleMessage
<1> QED
  BY <1>1, <1>2, <1>3, <1>4, <1>5, <1>9, <1>10 DEF Next

LEMMA DurableInvariant == Spec => []DurableInv
<1>1. Init => DurableInv
  BY DEF Init, NoRecord, DurableInv
<1>2. TypeOK /\ TaskOK /\ PlaceInv /\ WorkInv /\ PayInv /\ DurableInv /\ [Next]_vars => DurableInv'
  <2> SUFFICES ASSUME TypeOK, TaskOK, PlaceInv, WorkInv, PayInv, DurableInv, [Next]_vars PROVE DurableInv'
    OBVIOUS
  <2>1. OnRecord
    BY DEF PayInv
  <2> QED
    BY <2>1, StepAdds, AddsKeeps, SettlementKeeps
<1> QED
  BY <1>1, <1>2, Typing, PlaceInvariant, WorkInvariant, PayInvariant, PTL DEF Spec

(* What the buyer was told survives restarts: a settled agreement stays on *)
(* the anti-replay lists, and (unless sign or accept frames overlapped) it *)
(* keeps its transaction and a delivered one its delivery                  *)
(* (SellerStateStore.settle, .delivered).                                  *)
THEOREM ToldSafety == Spec => []ToldIsDurable
<1>1. DurableInv => ToldIsDurable
  BY DEF DurableInv, ToldIsDurable, Undisturbed, Alone
<1> QED
  BY <1>1, DurableInvariant, PTL

-----------------------------------------------------------------------------
(* Records and anchors.  RecordIsAnchored compares what the last handler   *)
(* wrote with what is on chain; what makes them agree is that one handler  *)
(* at a time delivers an undisturbed agreement, that none does once its    *)
(* delivery is on record, and what that handler has read at each await.    *)

Bundling == {"verifyBundle", "anchorBundle"}
Clear(a) == Alone(a) /\ <<"delivery", a>> \notin dup
Delivers(k, a) == task[k].pc \in Delivering /\ task[k].a = a

Underway(s, a) ==
  /\ s.pc # "payEvidence" => settled[a].delivery = None
  /\ s.pc = "plan" /\ s.artifact # None => artifact[a] = s.artifact
  /\ s.pc = "anchorArtifact" => s.evidence.artifact = s.content
  /\ s.pc = "anchorEvidence" => artifact[a] = s.evidence.artifact

Anchored(a) ==
  /\ settled[a].evidence # None /\ evidence[a] = settled[a].evidence
  /\ artifact[a] = evidence[a].artifact

DeliveryOf(a) ==
  /\ \A j, k \in Tasks : Delivers(j, a) /\ Delivers(k, a) => j = k
  /\ \A k \in Tasks : Delivers(k, a) => Underway(task[k], a)
  /\ settled[a].delivery # None => Anchored(a)

BundleOf(a) ==
  /\ settled[a].delivery # None => settled[a].tx # None
  /\ settled[a].bundle # {} => settled[a].delivery # None
  /\ settled[a].bundle \subseteq {settled[a].evidence}
  /\ \A k \in Tasks : task[k].pc \in Bundling /\ task[k].a = a =>
       /\ settled[a].delivery # None
       /\ task[k].pc = "anchorBundle" => task[k].evidence = settled[a].evidence

LegacyInv ==
  /\ \A a \in Legacy : settled[a].evidence = None
  /\ \A k \in Tasks : task[k].pc \in Delivering \ {"work"} => task[k].a \in Standard

Sound(a) == Clear(a) => BundleOf(a) /\ (a \in Standard => DeliveryOf(a))
RecordInv == LegacyInv /\ \A a \in Agreements : Sound(a)

(* What a step does not touch stays as it is.                              *)
DeliveryStays(a) ==
  /\ settled'[a].delivery = settled[a].delivery /\ settled'[a].evidence = settled[a].evidence
  /\ evidence'[a] = evidence[a] /\ artifact'[a] = artifact[a]
  /\ \A k \in Tasks : task'[k] = task[k] \/ task'[k].a # a \/ task'[k].pc \notin Delivering
BundleStays(a) ==
  /\ settled'[a] = settled[a]
  /\ \A k \in Tasks : task'[k] = task[k] \/ task'[k].a # a \/ task'[k].pc \notin Bundling

LEMMA DeliveryKept ==
  ASSUME NEW a, DeliveryOf(a), DeliveryStays(a)
  PROVE  DeliveryOf(a)'
<1>1. \A k \in Tasks : Delivers(k, a)' => Delivers(k, a) /\ task'[k] = task[k]
  BY DEF DeliveryStays, Delivers
<1>2. ASSUME NEW k \in Tasks, Delivers(k, a)' PROVE Underway(task[k], a)'
  <2>1. Underway(task[k], a) /\ task'[k] = task[k]
    BY <1>1, <1>2 DEF DeliveryOf
  <2> QED
    BY <2>1 DEF Underway, DeliveryStays
<1>3. settled'[a].delivery # None => Anchored(a)'
  BY DEF DeliveryOf, DeliveryStays, Anchored
<1> QED
  BY <1>1, <1>2, <1>3 DEF DeliveryOf

LEMMA BundleKept ==
  ASSUME NEW a, BundleOf(a), BundleStays(a)
  PROVE  BundleOf(a)'
BY DEF BundleOf, BundleStays

LEMMA SoundKept ==
  ASSUME NEW a, Sound(a), dup \subseteq dup', DeliveryStays(a), BundleStays(a)
  PROVE  Sound(a)'
<1>1. Clear(a)' => Clear(a)
  BY DEF Clear, Alone
<1> QED
  BY <1>1, DeliveryKept, BundleKept DEF Sound

(* A step of one handler, for one agreement.                               *)
LEMMA OthersStay ==
  ASSUME NEW k \in Tasks, NEW a, task'[k].a = a \/ task'[k].pc = "idle",
         \A j \in Tasks : j # k => task'[j] = task[j],
         \A b \in Agreements : b # a =>
           settled'[b] = settled[b] /\ evidence'[b] = evidence[b] /\ artifact'[b] = artifact[b]
  PROVE  \A b \in Agreements : b # a => DeliveryStays(b) /\ BundleStays(b)
BY DEF DeliveryStays, BundleStays, Delivering, Bundling

LEMMA SoundStep ==
  ASSUME RecordInv, LegacyInv', dup \subseteq dup', NEW a,
         \A b \in Agreements : b # a => DeliveryStays(b) /\ BundleStays(b),
         Clear(a) /\ Clear(a)' /\ BundleOf(a) /\ (a \in Standard => DeliveryOf(a))
           => BundleOf(a)' /\ (a \in Standard => DeliveryOf(a)')
  PROVE  RecordInv'
<1>1. ASSUME NEW b \in Agreements PROVE Sound(b)'
  <2>0. Sound(b)
    BY DEF RecordInv
  <2>1. CASE b # a
    BY <2>0, <2>1, SoundKept
  <2>2. CASE b = a
    <3>1. Clear(a)' => Clear(a)
      BY DEF Clear, Alone
    <3> QED
      BY <2>0, <2>2, <3>1 DEF Sound
  <2> QED
    BY <2>1, <2>2
<1> QED
  BY <1>1 DEF RecordInv

(* The one handler that delivers goes on, or ends.                         *)
LEMMA LoneMove ==
  ASSUME NEW k \in Tasks, NEW a, DeliveryOf(a), Delivers(k, a), Delivers(k, a)',
         \A j \in Tasks : j # k => task'[j] = task[j],
         Underway(task[k], a)', settled'[a].delivery = None
  PROVE  DeliveryOf(a)'
<1>1. \A j \in Tasks : j # k => ~ Delivers(j, a)'
  BY DEF DeliveryOf, Delivers
<1> QED
  BY <1>1 DEF DeliveryOf

LEMMA LoneEnd ==
  ASSUME NEW k \in Tasks, NEW a, DeliveryOf(a), Delivers(k, a), task'[k].pc = "idle",
         \A j \in Tasks : j # k => task'[j] = task[j],
         settled'[a].delivery # None => Anchored(a)'
  PROVE  DeliveryOf(a)'
<1>1. \A j \in Tasks : ~ Delivers(j, a)'
  BY DEF DeliveryOf, Delivers, Delivering
<1> QED
  BY <1>1 DEF DeliveryOf

(* A handler that ends and leaves the records and the anchors alone.       *)
LEMMA EndRecord ==
  ASSUME TypeOK, TaskOK, RecordInv, NEW k \in Tasks, End(k),
         UNCHANGED <<settled, evidence, artifact>>, dup \subseteq dup'
  PROVE  RecordInv'
<1>1. task'[k].pc = "idle" /\ \A j \in Tasks : j # k => task'[j] = task[j]
  BY EndUpdate DEF Idle
<1>2. \A b \in Agreements : DeliveryStays(b) /\ BundleStays(b)
  BY <1>1 DEF DeliveryStays, BundleStays, Delivering, Bundling
<1>3. LegacyInv'
  BY <1>1 DEF RecordInv, LegacyInv, Delivering
<1> QED
  BY <1>2, <1>3, SoundKept DEF RecordInv

(* A step that starts, moves or ends no delivery and no fulfilment.        *)
LEMMA StillRecord ==
  ASSUME RecordInv, UNCHANGED <<settled, evidence, artifact>>, dup \subseteq dup',
         \A k \in Tasks : task'[k] = task[k] \/ task'[k].pc \notin Delivering \cup Bundling
  PROVE  RecordInv'
<1>1. \A b \in Agreements : DeliveryStays(b) /\ BundleStays(b)
  BY DEF DeliveryStays, BundleStays
<1>2. LegacyInv'
  BY DEF RecordInv, LegacyInv
<1> QED
  BY <1>1, <1>2, SoundKept DEF RecordInv

(* Steps of the other parts of the daemon and of the world.                *)
LEMMA OtherRecord ==
  ASSUME TypeOK, TaskOK, RecordInv,
         \/ \E a \in Agreements : \/ Open(a) \/ SessionFails(a) \/ NegotiationOffers(a) \/ FixedReady(a) \/ FixedExpires(a)
                                  \/ \E t \in Txs : SettleAgain(a, t) \/ AnchorPaymentEvidence(a, t)
         \/ \E k \in Tasks, a \in Agreements : SignFrame(k, a) \/ AcceptFrame(k, a) \/ \E t \in Txs : SettleFrame(k, a, t)
         \/ \E t \in Txs : Pay(t)
         \/ Restart
         \/ UNCHANGED vars
  PROVE  RecordInv'
<1> USE DEF store, memory, world, history
<1>1. ASSUME NEW a \in Agreements,
             \/ Open(a) \/ SessionFails(a) \/ NegotiationOffers(a) \/ FixedReady(a) \/ FixedExpires(a)
             \/ \E t \in Txs : SettleAgain(a, t) \/ AnchorPaymentEvidence(a, t)
      PROVE  RecordInv'
  <2>1. UNCHANGED <<task, settled, evidence, artifact, dup>>
    BY <1>1 DEF Open, SessionFails, NegotiationOffers, FixedReady, FixedExpires, SettleAgain, AnchorPaymentEvidence
  <2> QED
    BY <2>1, StillRecord
<1>2. ASSUME NEW k \in Tasks, NEW a \in Agreements,
             SignFrame(k, a) \/ AcceptFrame(k, a) \/ \E t \in Txs : SettleFrame(k, a, t)
      PROVE  RecordInv'
  <2>1. PICK pc \in {"sign", "accept", "lookup"}, t \in Txs \cup {None} :
          task' = [task EXCEPT ![k] = [Idle EXCEPT !.pc = pc, !.a = a, !.tx = t]]
    BY <1>2 DEF SignFrame, AcceptFrame, SettleFrame, Start
  <2>2. \A j \in Tasks : task'[j] = task[j] \/ task'[j].pc \notin Delivering \cup Bundling
    BY <2>1 DEF TypeOK, Idle, Delivering, Bundling
  <2>3. UNCHANGED <<settled, evidence, artifact>> /\ dup \subseteq dup'
    BY <1>2 DEF SignFrame, AcceptFrame, SettleFrame, Note
  <2> QED
    BY <2>2, <2>3, StillRecord
<1>3. ASSUME NEW t \in Txs, Pay(t) PROVE RecordInv'
  BY <1>3, StillRecord DEF Pay
<1>4. CASE Restart
  <2>1. \A k \in Tasks : task'[k].pc \notin Delivering \cup Bundling
    BY <1>4 DEF Restart, Idle, Delivering, Bundling
  <2> QED
    BY <1>4, <2>1, StillRecord DEF Restart
<1>5. CASE UNCHANGED vars
  BY <1>5, StillRecord DEF vars
<1> QED
  BY <1>1, <1>2, <1>3, <1>4, <1>5

(* retryDelivery and fulfilBundle start.                                   *)
LEMMA DeliveryFrameRecord ==
  ASSUME TypeOK, TaskOK, RecordInv, NEW k \in Tasks, NEW a \in Agreements, NEW r \in BOOLEAN,
         DeliveryFrame(k, a, r)
  PROVE  RecordInv'
<1> USE DEF store, memory, world, history
<1>1. UNCHANGED <<settled, evidence, artifact>> /\ dup \subseteq dup' /\ task[k].pc = "idle"
  BY DEF DeliveryFrame, Note
<1>2. CASE UNCHANGED task
  BY <1>1, <1>2, StillRecord
<1>3. CASE ~ UNCHANGED task
  <2> DEFINE s == [Idle EXCEPT !.pc = IF a \in Legacy THEN "work" ELSE "payEvidence",
                               !.a = a, !.tx = settled[a].tx, !.recovery = r]
  <2>1. task' = [task EXCEPT ![k] = s] /\ Note("delivery", Delivering, a)
    BY <1>3 DEF DeliveryFrame
  <2>2. s.pc = (IF a \in Legacy THEN "work" ELSE "payEvidence") /\ s.a = a
    BY DEF Idle
  <2> HIDE DEF s
  <2>3. task'[k] = s /\ \A j \in Tasks : j # k => task'[j] = task[j]
    BY <2>1 DEF TypeOK
  <2>4. \A b \in Agreements : b # a => DeliveryStays(b) /\ BundleStays(b)
    BY <1>1, <2>2, <2>3, OthersStay
  <2>5. LegacyInv'
    BY <1>1, <2>2, <2>3 DEF RecordInv, LegacyInv, Delivering, Standard
  <2>6. BundleStays(a)
    BY <1>1, <2>2, <2>3 DEF BundleStays, Bundling
  <2>7. ASSUME Clear(a)', a \in Standard, DeliveryOf(a) PROVE DeliveryOf(a)'
    <3>1. <<"delivery", a>> \notin dup'
      BY <2>7 DEF Clear
    <3>2. \A j \in Tasks : ~ Delivers(j, a)
      BY <2>1, <3>1 DEF Note, Overlaps, Delivers
    <3>3. \A j \in Tasks : Delivers(j, a)' => j = k
      BY <2>3, <3>2 DEF Delivers
    <3>4. task'[k].pc = "payEvidence"
      BY <2>2, <2>3, <2>7 DEF Standard
    <3>5. Underway(task[k], a)'
      BY <3>4 DEF Underway
    <3>6. settled'[a].delivery # None => Anchored(a)'
      BY <1>1, <2>7 DEF DeliveryOf, Anchored
    <3> QED
      BY <3>3, <3>5, <3>6 DEF DeliveryOf
  <2> QED
    BY <1>1, <2>4, <2>5, <2>6, <2>7, BundleKept, SoundStep
<1> QED
  BY <1>2, <1>3

LEMMA FulfilFrameRecord ==
  ASSUME TypeOK, TaskOK, RecordInv, NEW k \in Tasks, NEW a \in Agreements, NEW e, FulfilFrame(k, a, e)
  PROVE  RecordInv'
<1> USE DEF store, memory, world, history
<1> DEFINE s == [Idle EXCEPT !.pc = "verifyBundle", !.a = a, !.evidence = e]
<1>1. UNCHANGED <<settled, evidence, artifact, dup>> /\ settled[a].delivery # None /\ task' = [task EXCEPT ![k] = s]
  BY DEF FulfilFrame
<1>2. s.pc = "verifyBundle" /\ s.a = a
  BY DEF Idle
<1> HIDE DEF s
<1>3. task'[k] = s /\ \A j \in Tasks : j # k => task'[j] = task[j]
  BY <1>1 DEF TypeOK
<1>4. \A b \in Agreements : b # a => DeliveryStays(b) /\ BundleStays(b)
  BY <1>1, <1>2, <1>3, OthersStay
<1>5. LegacyInv'
  BY <1>1, <1>2, <1>3 DEF RecordInv, LegacyInv, Delivering
<1>6. DeliveryStays(a)
  BY <1>1, <1>2, <1>3 DEF DeliveryStays, Delivering
<1>7. ASSUME BundleOf(a) PROVE BundleOf(a)'
  BY <1>1, <1>2, <1>3, <1>7 DEF BundleOf, Bundling
<1> QED
  BY <1>1, <1>4, <1>5, <1>6, <1>7, DeliveryKept, SoundStep

(* store.settle starts the record: nothing is delivered or bundled yet.    *)
LEMMA CommitRecord ==
  ASSUME TypeOK, TaskOK, PlaceInv, WorkInv, DurableInv, RecordInv, NEW k \in Tasks, CommitSettlement(k)
  PROVE  RecordInv'
<1> USE DEF store, memory, world, history
<1>1. PICK a, t : a = task[k].a /\ t = task[k].tx
  OBVIOUS
<1>2. /\ a \in Agreements /\ t \in Txs /\ t # None /\ a \in accepted /\ task[k].pc = "commit"
      /\ settled' = [settled EXCEPT ![a] = [NoRecord EXCEPT !.tx = t]]
      /\ (End(k) \/ (a \in Legacy /\ Goto(k, "work")))
      /\ UNCHANGED <<evidence, artifact, dup>>
  BY <1>1, SellerAssumption DEF CommitSettlement, At, TaskOK, TaskFine
<1>3. /\ settled'[a].tx = t /\ settled'[a].delivery = None /\ settled'[a].evidence = None /\ settled'[a].bundle = {}
      /\ \A b \in Agreements : b # a => settled'[b] = settled[b]
  BY <1>2 DEF TypeOK, NoRecord
<1>4. /\ task'[k].pc = "idle" \/ (a \in Legacy /\ task'[k].pc = "work" /\ task'[k].a = a)
      /\ \A j \in Tasks : j # k => task'[j] = task[j]
  <2>1. CASE End(k)
    BY <2>1, EndUpdate DEF Idle
  <2>2. CASE a \in Legacy /\ Goto(k, "work")
    BY <1>1, <2>2, GotoFields
  <2> QED
    BY <1>2, <2>1, <2>2
<1>5. \A b \in Agreements : b # a => DeliveryStays(b) /\ BundleStays(b)
  BY <1>2, <1>3, <1>4, OthersStay
<1>6. LegacyInv'
  BY <1>2, <1>3, <1>4 DEF RecordInv, LegacyInv, Delivering
<1>7. ASSUME Clear(a), BundleOf(a)
      PROVE  BundleOf(a)' /\ (a \in Standard => DeliveryOf(a)')
  <2>1. a \notin settledHashes
    BY <1>2, <1>7 DEF Clear, PlaceInv, PlaceOf
  <2>2. settled[a].tx = None
    BY <1>2, <2>1 DEF DurableInv
  <2>3. settled[a].delivery = None
    BY <1>7, <2>2 DEF BundleOf
  <2>4. \A j \in Tasks : ~ (task[j].pc \in Bundling /\ task[j].a = a)
    BY <1>7, <2>3 DEF BundleOf
  <2>5. \A j \in Tasks : ~ Delivers(j, a)
    BY <2>2 DEF WorkInv, TaskWork, Delivers
  <2>6. \A j \in Tasks : ~ (task'[j].pc \in Bundling /\ task'[j].a = a)
    BY <1>4, <2>4 DEF Bundling
  <2>7. a \in Standard => \A j \in Tasks : ~ Delivers(j, a)'
    BY <1>4, <2>5 DEF Delivers, Delivering, Standard
  <2>8. BundleOf(a)'
    BY <1>2, <1>3, <2>6 DEF BundleOf
  <2> QED
    BY <1>3, <2>7, <2>8 DEF DeliveryOf
<1> QED
  BY <1>2, <1>5, <1>6, <1>7, SoundStep

(* store.delivered, by the one handler that delivers the agreement: the    *)
(* record gets evidence that is on chain with its artifact.                *)
LEMMA PersistRecord ==
  ASSUME TypeOK, TaskOK, WorkInv, RecordInv, NEW k \in Tasks, NEW c \in Contents, NEW ev, Persist(k, c, ev),
         dup' = dup, task[k].pc \in {"work", "plan", "anchorEvidence"},
         task[k].a \in Legacy => ev = None,
         UNCHANGED artifact, \A b \in Agreements : b # task[k].a => evidence'[b] = evidence[b],
         (task[k].a \in Standard /\ Underway(task[k], task[k].a)) =>
            /\ ev # None /\ evidence'[task[k].a] = ev /\ artifact[task[k].a] = ev.artifact
  PROVE  RecordInv'
<1>1. PICK a : a = task[k].a
  OBVIOUS
<1>2. a \in Agreements /\ settled[a].tx # None /\ c # None
  BY <1>1, SellerAssumption DEF TaskOK, TaskFine, WorkInv, TaskWork, Delivering
<1>3. settled' = [settled EXCEPT ![a].delivery = c, ![a].evidence = ev] /\ End(k)
  BY <1>1 DEF Persist
<1>4. /\ settled'[a].tx = settled[a].tx /\ settled'[a].delivery = c /\ settled'[a].evidence = ev
      /\ settled'[a].bundle = settled[a].bundle
      /\ \A b \in Agreements : b # a => settled'[b] = settled[b]
  BY <1>2, <1>3 DEF TypeOK, Record
<1>5. task'[k].pc = "idle" /\ \A j \in Tasks : j # k => task'[j] = task[j]
  BY <1>3, EndUpdate DEF Idle
<1>6. \A b \in Agreements : b # a => DeliveryStays(b) /\ BundleStays(b)
  BY <1>1, <1>4, <1>5, OthersStay
<1>7. LegacyInv'
  BY <1>1, <1>4, <1>5, SellerAssumption DEF RecordInv, LegacyInv, Delivering
<1>8. ASSUME BundleOf(a), a \in Standard => DeliveryOf(a)
      PROVE  BundleOf(a)' /\ (a \in Standard => DeliveryOf(a)')
  <2>1. Delivers(k, a)
    BY <1>1 DEF Delivers, Delivering
  <2>2. CASE a \in Standard
    <3>1. Underway(task[k], a)
      BY <1>8, <2>1, <2>2 DEF DeliveryOf
    <3>2. settled[a].delivery = None
      BY <3>1 DEF Underway
    <3>3. settled[a].bundle = {} /\ \A j \in Tasks : ~ (task[j].pc \in Bundling /\ task[j].a = a)
      BY <1>8, <3>2 DEF BundleOf
    <3>4. \A j \in Tasks : ~ (task'[j].pc \in Bundling /\ task'[j].a = a)
      BY <1>5, <3>3 DEF Bundling
    <3>5. BundleOf(a)'
      BY <1>2, <1>4, <3>3, <3>4 DEF BundleOf
    <3>6. Anchored(a)'
      BY <1>1, <1>4, <2>2, <3>1 DEF Anchored
    <3> QED
      BY <1>5, <1>8, <2>1, <2>2, <3>5, <3>6, LoneEnd
  <2>3. CASE a \notin Standard
    <3>1. ev = None /\ settled[a].evidence = None
      BY <1>1, <1>2, <2>3 DEF RecordInv, LegacyInv, Standard
    <3>2. BundleOf(a)'
      BY <1>2, <1>4, <1>5, <1>8, <3>1 DEF BundleOf, Bundling
    <3> QED
      BY <2>3, <3>2
  <2> QED
    BY <2>2, <2>3
<1> QED
  BY <1>6, <1>7, <1>8, SoundStep

(* A handler that goes on with its delivery.                               *)
LEMMA MoveRecord ==
  ASSUME RecordInv, NEW k \in Tasks, NEW a, task[k].a = a, task'[k].a = a, dup' = dup,
         task[k].pc \in Delivering, task'[k].pc \in Delivering, a \in Standard,
         \A j \in Tasks : j # k => task'[j] = task[j],
         UNCHANGED <<settled, evidence>>, \A b \in Agreements : b # a => artifact'[b] = artifact[b],
         Underway(task[k], a) => settled[a].delivery = None /\ Underway(task[k], a)'
  PROVE  RecordInv'
<1>1. \A b \in Agreements : b # a => DeliveryStays(b) /\ BundleStays(b)
  BY OthersStay
<1>2. LegacyInv'
  BY DEF RecordInv, LegacyInv
<1>3. BundleStays(a)
  BY DEF BundleStays, Delivering, Bundling
<1>4. ASSUME DeliveryOf(a) PROVE DeliveryOf(a)'
  <2>1. Delivers(k, a) /\ Delivers(k, a)'
    BY DEF Delivers
  <2>2. Underway(task[k], a)
    BY <1>4, <2>1 DEF DeliveryOf
  <2> QED
    BY <1>4, <2>1, <2>2, LoneMove
<1> QED
  BY <1>1, <1>2, <1>3, <1>4, BundleKept, SoundStep

(* The handlers of a delivery resume.                                      *)
LEMMA DeliveryRecord ==
  ASSUME TypeOK, TaskOK, WorkInv, RecordInv, NEW k \in Tasks,
         EvidenceVerified(k) \/ WorkReturns(k) \/ PlanEvidence(k) \/ AnchorArtifact(k) \/ AnchorEvidence(k)
  PROVE  RecordInv'
<1> USE DEF store, memory, world, history
<1>1. PICK a : a = task[k].a
  OBVIOUS
<1>2. task[k] \in Task /\ TaskFine(task[k]) /\ (task[k].pc \in Delivering \ {"work"} => a \in Standard)
  BY <1>1 DEF TypeOK, TaskOK, RecordInv, LegacyInv
<1>3. CASE EvidenceVerified(k)
  <2>1. task[k].pc = "payEvidence" /\ UNCHANGED <<settled, evidence, artifact, dup>>
    BY <1>3 DEF EvidenceVerified, At
  <2>2. CASE End(k)
    BY <2>1, <2>2, EndRecord
  <2>3. CASE Goto(k, "work") /\ settled[a].delivery = None
    <3>1. /\ task'[k].pc = "work" /\ task'[k].a = a
          /\ \A j \in Tasks : j # k => task'[j] = task[j]
      BY <1>1, <2>3, GotoFields
    <3>2. Underway(task[k], a)'
      BY <2>1, <2>3, <3>1 DEF Underway
    <3> QED
      BY <1>1, <1>2, <2>1, <2>3, <3>1, <3>2, MoveRecord DEF Delivering
  <2> QED
    BY <1>1, <1>3, <2>2, <2>3 DEF EvidenceVerified
<1>4. CASE WorkReturns(k)
  <2>1. task[k].pc = "work" /\ UNCHANGED <<evidence, artifact, dup>> /\ a \in Agreements
    BY <1>1, <1>2, <1>4 DEF WorkReturns, At, TaskFine
  <2>2. PICK c \in Contents :
          IF a \in Legacy
          THEN Persist(k, c, None)
          ELSE /\ task' = [task EXCEPT ![k].pc = "plan", ![k].content = c,
                             ![k].artifact = IF task[k].recovery THEN artifact[task[k].a] ELSE None]
               /\ UNCHANGED settled
    BY <1>1, <1>4 DEF WorkReturns
  <2>3. CASE a \in Legacy
    <3>1. Persist(k, c, None) /\ a \notin Standard
      BY <2>2, <2>3 DEF Standard
    <3> QED
      BY <1>1, <2>1, <3>1, PersistRecord
  <2>4. CASE a \notin Legacy
    <3> DEFINE s == [task[k] EXCEPT !.pc = "plan", !.content = c,
                       !.artifact = IF task[k].recovery THEN artifact[task[k].a] ELSE None]
    <3>1. s.a = a /\ s.pc = "plan" /\ s.artifact \in {artifact[a], None}
      BY <1>1, <1>2 DEF Task
    <3>2. task' = [task EXCEPT ![k] = s] /\ UNCHANGED settled
      BY <2>2, <2>4 DEF TypeOK
    <3> HIDE DEF s
    <3>3. task'[k] = s /\ \A j \in Tasks : j # k => task'[j] = task[j]
      BY <3>2 DEF TypeOK
    <3>4. Underway(task[k], a) => settled[a].delivery = None /\ Underway(task[k], a)'
      BY <2>1, <3>1, <3>2, <3>3 DEF Underway
    <3> QED
      BY <1>1, <2>1, <2>4, <3>1, <3>2, <3>3, <3>4, MoveRecord DEF Delivering, Standard
  <2> QED
    BY <2>3, <2>4
<1>5. CASE PlanEvidence(k)
  <2> DEFINE c == task[k].content
             found == IF task[k].recovery THEN evidence[a] ELSE None
             reused == task[k].artifact # None
             fresh == [content |-> c, artifact |-> IF reused THEN task[k].artifact ELSE c]
             s == [task[k] EXCEPT !.evidence = fresh,
                     !.pc = IF reused THEN "anchorEvidence" ELSE "anchorArtifact"]
  <2>1. task[k].pc = "plan" /\ UNCHANGED <<evidence, artifact, dup>> /\ c \in Contents /\ a \in Standard
    BY <1>2, <1>5 DEF PlanEvidence, At, TaskFine, Delivering
  <2>2. CASE Persist(k, c, found) /\ found # None /\ reused /\ found = fresh
    <3>1. found = evidence[a] /\ fresh.artifact = task[k].artifact
      BY <2>2
    <3>2. Underway(task[k], a) => artifact[a] = fresh.artifact
      BY <2>1, <2>2, <3>1 DEF Underway
    <3> HIDE DEF c, found, fresh
    <3>3. Underway(task[k], a) => found # None /\ evidence'[a] = found /\ artifact[a] = found.artifact
      BY <2>1, <2>2, <3>1, <3>2
    <3>4. a \in Legacy => found = None
      BY <2>1 DEF Standard
    <3> QED
      BY <1>1, <2>1, <2>2, <3>3, <3>4, PersistRecord
  <2>3. CASE End(k) /\ UNCHANGED settled
    BY <2>1, <2>3, EndRecord
  <2>4. CASE /\ task' = [task EXCEPT ![k].evidence = fresh,
                      ![k].pc = IF reused THEN "anchorEvidence" ELSE "anchorArtifact"]
             /\ UNCHANGED settled
    <3>1. /\ s.a = a /\ s.pc = (IF reused THEN "anchorEvidence" ELSE "anchorArtifact")
          /\ s.evidence = fresh /\ s.content = c
      BY <1>1, <1>2 DEF Task
    <3>2. task' = [task EXCEPT ![k] = s]
      BY <2>4 DEF TypeOK
    <3>3. fresh.artifact = IF reused THEN task[k].artifact ELSE c
      OBVIOUS
    <3> HIDE DEF s, fresh, c
    <3>4. task'[k] = s /\ \A j \in Tasks : j # k => task'[j] = task[j]
      BY <3>2 DEF TypeOK
    <3>5. Underway(task[k], a) => settled[a].delivery = None /\ Underway(task[k], a)'
      BY <2>1, <2>4, <3>1, <3>3, <3>4 DEF Underway
    <3> QED
      BY <1>1, <2>1, <2>4, <3>1, <3>4, <3>5, MoveRecord DEF Delivering
  <2> QED
    BY <1>1, <1>5, <2>2, <2>3, <2>4 DEF PlanEvidence
<1>6. CASE AnchorArtifact(k)
  <2>1. /\ task[k].pc = "anchorArtifact" /\ a \in Standard /\ Goto(k, "anchorEvidence")
        /\ artifact' = [artifact EXCEPT ![a] = task[k].content] /\ UNCHANGED <<settled, evidence, dup>>
    BY <1>1, <1>2, <1>6 DEF AnchorArtifact, At, Delivering
  <2>2. artifact'[a] = task[k].content /\ \A b \in Agreements : b # a => artifact'[b] = artifact[b]
    BY <2>1 DEF TypeOK, Standard
  <2>3. /\ task'[k].pc = "anchorEvidence" /\ task'[k].a = a
        /\ \A j \in Tasks : j # k => task'[j] = task[j]
    BY <1>1, <2>1, GotoFields
  <2>4. task'[k].evidence = task[k].evidence
    BY <1>2, <2>1 DEF Goto, TypeOK, Task
  <2>5. Underway(task[k], a) => settled[a].delivery = None /\ Underway(task[k], a)'
    BY <2>1, <2>2, <2>3, <2>4 DEF Underway
  <2> QED
    BY <1>1, <2>1, <2>2, <2>3, <2>5, MoveRecord DEF Delivering
<1>7. CASE AnchorEvidence(k)
  <2>1. /\ task[k].pc = "anchorEvidence" /\ a \in Standard /\ task[k].content \in Contents
        /\ evidence' = [evidence EXCEPT ![a] = task[k].evidence] /\ task[k].evidence \in Evidence
        /\ Persist(k, task[k].content, task[k].evidence) /\ UNCHANGED <<artifact, dup>>
    BY <1>1, <1>2, <1>7 DEF AnchorEvidence, At, Delivering, TaskFine
  <2>2. evidence'[a] = task[k].evidence /\ \A b \in Agreements : b # a => evidence'[b] = evidence[b]
    BY <2>1 DEF TypeOK, Standard
  <2>3. Underway(task[k], a) => artifact[a] = task[k].evidence.artifact
    BY <2>1 DEF Underway
  <2>4. task[k].evidence # None
    BY <2>1, SellerAssumption DEF Evidence
  <2>5. a \notin Legacy
    BY <2>1 DEF Standard
  <2> QED
    BY <1>1, <2>1, <2>2, <2>3, <2>4, <2>5, PersistRecord
<1> QED
  BY <1>3, <1>4, <1>5, <1>6, <1>7

(* The handler of a fulfilment resumes.                                    *)
LEMMA FulfilRecord ==
  ASSUME TypeOK, TaskOK, RecordInv, NEW k \in Tasks, BundleVerified(k) \/ AnchorBundle(k)
  PROVE  RecordInv'
<1> USE DEF store, memory, world, history
<1>1. PICK a : a = task[k].a
  OBVIOUS
<1>2. task[k] \in Task /\ TaskFine(task[k])
  BY DEF TypeOK, TaskOK
<1>3. CASE BundleVerified(k)
  <2>1. /\ task[k].pc = "verifyBundle" /\ task[k].evidence = settled[a].evidence /\ Goto(k, "anchorBundle")
        /\ UNCHANGED <<settled, evidence, artifact, dup>>
    BY <1>1, <1>3 DEF BundleVerified, At, StructureValid
  <2>2. /\ task'[k].pc = "anchorBundle" /\ task'[k].a = a
        /\ \A j \in Tasks : j # k => task'[j] = task[j]
    BY <1>1, <2>1, GotoFields
  <2>3. task'[k].evidence = task[k].evidence
    BY <1>2, <2>1 DEF Goto, TypeOK, Task
  <2>4. \A b \in Agreements : b # a => DeliveryStays(b) /\ BundleStays(b)
    BY <2>1, <2>2, OthersStay
  <2>5. LegacyInv'
    BY <2>1, <2>2 DEF RecordInv, LegacyInv, Delivering
  <2>6. DeliveryStays(a)
    BY <2>1, <2>2 DEF DeliveryStays, Delivering
  <2>7. ASSUME BundleOf(a) PROVE BundleOf(a)'
    BY <1>1, <2>1, <2>2, <2>3, <2>7 DEF BundleOf, Bundling
  <2> QED
    BY <2>1, <2>4, <2>5, <2>6, <2>7, DeliveryKept, SoundStep
<1>4. CASE AnchorBundle(k)
  <2>1. /\ task[k].pc = "anchorBundle" /\ End(k) /\ a \in Agreements
        /\ settled' = [settled EXCEPT ![a].bundle = {task[k].evidence}]
        /\ UNCHANGED <<evidence, artifact, dup>>
    BY <1>1, <1>2, <1>4 DEF AnchorBundle, At, TaskFine
  <2>2. /\ settled'[a].tx = settled[a].tx /\ settled'[a].delivery = settled[a].delivery
        /\ settled'[a].evidence = settled[a].evidence /\ settled'[a].bundle = {task[k].evidence}
        /\ \A b \in Agreements : b # a => settled'[b] = settled[b]
    BY <2>1 DEF TypeOK, Record
  <2>3. task'[k].pc = "idle" /\ \A j \in Tasks : j # k => task'[j] = task[j]
    BY <2>1, EndUpdate DEF Idle
  <2>4. \A b \in Agreements : b # a => DeliveryStays(b) /\ BundleStays(b)
    BY <2>1, <2>2, <2>3, OthersStay
  <2>5. LegacyInv'
    BY <2>1, <2>2, <2>3, SellerAssumption DEF RecordInv, LegacyInv, Delivering
  <2>6. DeliveryStays(a)
    BY <2>1, <2>2, <2>3 DEF DeliveryStays, Delivering
  <2>7. ASSUME BundleOf(a) PROVE BundleOf(a)'
    <3>1. settled[a].delivery # None /\ task[k].evidence = settled[a].evidence
      BY <1>1, <2>1, <2>7 DEF BundleOf, Bundling
    <3> QED
      BY <2>2, <2>3, <2>7, <3>1 DEF BundleOf, Bundling
  <2> QED
    BY <2>1, <2>4, <2>5, <2>6, <2>7, DeliveryKept, SoundStep
<1> QED
  BY <1>3, <1>4

LEMMA RecordStep ==
  ASSUME TypeOK, TaskOK, PlaceInv, WorkInv, DurableInv, RecordInv, [Next]_vars
  PROVE  RecordInv'
<1> USE DEF store, memory, world, history
<1>1. ASSUME NEW k \in Tasks, NEW pc, Goto(k, pc), pc \notin Delivering \cup Bundling,
             UNCHANGED <<settled, evidence, artifact, dup>>
      PROVE  RecordInv'
  <2>1. \A j \in Tasks : task'[j] = task[j] \/ task'[j].pc \notin Delivering \cup Bundling
    BY <1>1, GotoFields
  <2> QED
    BY <1>1, <2>1, StillRecord
<1>2. ASSUME NEW k \in Tasks, AnchorFails(k) PROVE RecordInv'
  <2>1. PICK a : a = task[k].a
    OBVIOUS
  <2>2. /\ task[k].pc \in {"anchorArtifact", "anchorEvidence"} /\ End(k) /\ UNCHANGED <<settled, artifact, dup>>
        /\ \A b \in Agreements : b # a => evidence'[b] = evidence[b]
    BY <1>2, <2>1 DEF AnchorFails, TypeOK
  <2>3. task'[k].pc = "idle" /\ \A j \in Tasks : j # k => task'[j] = task[j]
    BY <2>2, EndUpdate DEF Idle
  <2>4. \A b \in Agreements : b # a => DeliveryStays(b) /\ BundleStays(b)
    BY <2>2, <2>3, OthersStay
  <2>5. LegacyInv'
    BY <2>2, <2>3 DEF RecordInv, LegacyInv, Delivering
  <2>6. BundleStays(a)
    BY <2>2, <2>3 DEF BundleStays, Bundling
  <2>7. ASSUME DeliveryOf(a) PROVE DeliveryOf(a)'
    <3>1. Delivers(k, a)
      BY <2>1, <2>2 DEF Delivers, Delivering
    <3>2. settled[a].delivery = None
      BY <2>2, <2>7, <3>1 DEF DeliveryOf, Underway
    <3> QED
      BY <2>2, <2>3, <2>7, <3>1, <3>2, LoneEnd
  <2> QED
    BY <2>2, <2>4, <2>5, <2>6, <2>7, BundleKept, SoundStep
<1>3. ASSUME NEW k \in Tasks, Resume(k) PROVE RecordInv'
  <2>1. CASE \/ SignReturns(k) \/ AcceptVerified(k) \/ AcceptRejected(k) \/ LookupRejected(k)
             \/ CommitThrows(k) \/ EvidenceRejected(k) \/ WorkFails(k) \/ FulfilFails(k)
    BY <2>1, EndRecord DEF SignReturns, AcceptVerified, AcceptRejected, LookupRejected,
         CommitThrows, EvidenceRejected, WorkFails, FulfilFails
  <2>2. CASE LookupOk(k) \/ LookupRetriable(k)
    BY <1>1, <2>2 DEF LookupOk, LookupRetriable, Delivering, Bundling
  <2>3. CASE RetryLookup(k)
    BY <1>1, <2>3, EndRecord DEF RetryLookup, Delivering, Bundling
  <2> QED
    BY <1>2, <1>3, <2>1, <2>2, <2>3, CommitRecord, DeliveryRecord, FulfilRecord DEF Resume
<1>4. ASSUME NEW k \in Tasks, HandleMessage(k) PROVE RecordInv'
  BY <1>4, OtherRecord, DeliveryFrameRecord, FulfilFrameRecord DEF HandleMessage
<1> QED
  BY <1>3, <1>4, OtherRecord DEF Next

(* What a dispute over a delivery is decided on agrees: the record of a    *)
(* delivered Standard agreement is the evidence on chain, with the         *)
(* artifact it refers to, and the seller's bundle refers to it, unless     *)
(* sign, accept or delivery frames of the agreement overlapped             *)
(* (SellerDaemon.runDelivery, fulfilBundle; SellerStateStore.delivered).   *)
THEOREM RecordSafety == Spec => []DeliveryOnRecord
<1>1. Init => RecordInv
  <2> SUFFICES ASSUME Init PROVE RecordInv
    OBVIOUS
  <2>1. \A k \in Tasks : task[k].pc = "idle"
    BY DEF Init, Idle
  <2>2. \A a \in Agreements : /\ settled[a].delivery = None /\ settled[a].evidence = None
                               /\ settled[a].bundle = {}
    BY DEF Init, NoRecord
  <2>3. LegacyInv
    BY <2>1, <2>2, SellerAssumption DEF LegacyInv, Delivering
  <2>4. ASSUME NEW a \in Agreements PROVE BundleOf(a) /\ DeliveryOf(a)
    BY <2>1, <2>2 DEF BundleOf, DeliveryOf, Delivers, Delivering, Bundling
  <2> QED
    BY <2>3, <2>4 DEF RecordInv, Sound
<1>2. RecordInv => DeliveryOnRecord
  BY DEF RecordInv, Sound, Clear, Alone, BundleOf, DeliveryOf, Anchored, Undisturbed, Standard,
       DeliveryOnRecord, RecordIsAnchored, BundleMatchesDelivery
<1> QED
  BY <1>1, <1>2, RecordStep, Typing, PlaceInvariant, WorkInvariant, DurableInvariant, PTL DEF Spec
=============================================================================
