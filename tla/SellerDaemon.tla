---------------------------- MODULE SellerDaemon ----------------------------
(***************************************************************************)
(* The seller's side of a purchase after a channel is open: SellerDaemon   *)
(* and SellerStateStore (negotiation-l2ps/seller-daemon.ts) with the       *)
(* PaymentGate it verifies native payments through.                        *)
(*                                                                         *)
(* Frames of the buyer arrive in any order and any number of times, and    *)
(* handleMessage starts one handler activation per frame without waiting   *)
(* for the others, so a task is one activation and a step is the code      *)
(* between two of its awaits.  Every store operation ends in an atomic     *)
(* write of the state file: the store survives a restart, the tasks, the   *)
(* sessions and the gate's reservations do not.                            *)
(*                                                                         *)
(* A channel carries one job and so one agreement: the channel of          *)
(* agreement a is named a too.  A frame from another client than the one   *)
(* the agreement was offered to is answered "unknown_agreement" and        *)
(* changes nothing; such frames are left out.  A handler keeps a reference *)
(* to the settled record, which the store changes in place: it reads the   *)
(* record as it is when it looks.                                          *)
(***************************************************************************)
EXTENDS Integers, FiniteSets

CONSTANTS
  Agreements,   \* agreement hashes
  FixedPrice,   \* those signed on a fixed-price session; the others are RFQs
  Legacy,       \* those without a Standard AgreementDocument
  X402,         \* Standard agreements on the x402 rail
  Txs,          \* payment transactions
  Pays,         \* Pays[a]: transactions that pay agreement a in full
  Contents,     \* what the agent's work may come out as
  Tasks,        \* handler activations that may be open at a time
  None,         \* no transaction, no content, no record
  MaxSessions,  \* maxSessions
  MaxRestarts   \* bound on the restarts explored

(* The EIP-3009 nonce of an x402 payment is derived from the job and the   *)
(* phase, so it pays one agreement only; a native transfer may match many. *)
ASSUME SellerAssumption ==
  /\ FixedPrice \subseteq Agreements /\ Legacy \subseteq Agreements \ FixedPrice
  /\ X402 \subseteq Agreements \ Legacy
  /\ Pays \in [Agreements -> SUBSET Txs]
  /\ \A a \in X402, b \in Agreements : a # b => Pays[a] \cap Pays[b] = {}
  /\ None \notin Txs \cup Contents \cup Agreements \cup [content : Contents, artifact : Contents]
  /\ MaxSessions \in Nat /\ MaxRestarts \in Nat

VARIABLES
  \* SellerStateStore, on disk
  channels,     \* usedChannelIds
  offered,      \* agreements offered to their buyer
  accepted,     \* agreements whose commitment was verified
  settledHashes, settledTxs,   \* the anti-replay lists
  settled,      \* settled[a]: the transaction, the content delivered, its evidence
                \* (None of a legacy delivery) and, once fulfilled, the evidence
                \* the seller's bundle refers to
  \* memory
  sessions,     \* channels in identity exchange or negotiation
  fixedSessions,\* fixed-price channels waiting for the buyer's signature
  reserved,     \* PaymentGate.reserved
  task,         \* task[k]: a handler activation
  \* the world outside the daemon
  paid,         \* transactions confirmed on their chain
  payEvidence,  \* payEvidence[a]: tx of the buyer's anchored payment evidence
  artifact,     \* artifact[a]: content anchored at the delivery address
  evidence,     \* evidence[a]: what is anchored at the evidence address
  told,         \* replies sent: <<"settled", a, tx>>, <<"delivered", a, evidence>>
  restarts,
  \* history
  overlapped,   \* transactions looked up by two handlers at once
  dup           \* <<kind, agreement>>: two handlers of that kind worked on it at once

store == <<channels, offered, accepted, settledHashes, settledTxs, settled>>
memory == <<sessions, fixedSessions, reserved>>
world == <<paid, payEvidence, artifact, evidence>>
history == <<overlapped, dup>>
vars == <<store, memory, task, world, told, restarts, history>>

NoRecord == [tx |-> None, delivery |-> None, evidence |-> None, bundle |-> {}]
Evidence == [content : Contents, artifact : Contents]
Record == [tx : Txs \cup {None}, delivery : Contents \cup {None},
           evidence : Evidence \cup {None}, bundle : SUBSET (Evidence \cup {None})]

Stages == {"idle", "sign", "accept", "lookup", "backoff", "commit", "payEvidence",
           "work", "plan", "anchorArtifact", "anchorEvidence", "verifyBundle", "anchorBundle"}
Idle == [pc |-> "idle", a |-> None, tx |-> None, content |-> None,
         artifact |-> None, evidence |-> None, recovery |-> FALSE]
Task == [pc : Stages, a : Agreements \cup {None}, tx : Txs \cup {None},
         content : Contents \cup {None}, artifact : Contents \cup {None},
         evidence : Evidence \cup {None}, recovery : BOOLEAN]

Standard == Agreements \ Legacy

Init ==
  /\ channels = {} /\ offered = {} /\ accepted = {}
  /\ settledHashes = {} /\ settledTxs = {}
  /\ settled = [a \in Agreements |-> NoRecord]
  /\ sessions = {} /\ fixedSessions = {} /\ reserved = {}
  /\ task = [k \in Tasks |-> Idle]
  /\ paid = {}
  /\ payEvidence = [a \in Agreements |-> None]
  /\ artifact = [a \in Agreements |-> None]
  /\ evidence = [a \in Agreements |-> None]
  /\ told = {} /\ restarts = 0
  /\ overlapped = {} /\ dup = {}

(* Task k starts, moves to another await, or ends.                         *)
Start(k, pc, a, tx) ==
  /\ task[k].pc = "idle"
  /\ task' = [task EXCEPT ![k] = [Idle EXCEPT !.pc = pc, !.a = a, !.tx = tx]]
At(k, pc) == task[k].pc = pc
Goto(k, pc) == task' = [task EXCEPT ![k].pc = pc]
End(k) == task' = [task EXCEPT ![k] = Idle]

-----------------------------------------------------------------------------
(* Channels and offers *)

(* The "busy" test: openFixed counts every session, open only those that   *)
(* are exchanging identities or negotiating.                               *)
Admits(a) ==
  IF a \in FixedPrice THEN Cardinality(sessions) + Cardinality(fixedSessions) < MaxSessions
                      ELSE Cardinality(sessions) < MaxSessions

(* open and openFixed: reserveChannel refuses a channel id ever used.      *)
Open(a) ==
  /\ Admits(a)
  /\ a \notin channels
  /\ channels' = channels \cup {a}
  /\ sessions' = sessions \cup {a}
  /\ UNCHANGED <<offered, accepted, settledHashes, settledTxs, settled, fixedSessions,
                 reserved, task, world, told, restarts, history>>

(* The identity exchange failed, or the negotiation walked or failed.      *)
SessionFails(a) ==
  /\ a \in sessions
  /\ sessions' = sessions \ {a}
  /\ UNCHANGED <<store, fixedSessions, reserved, task, world, told, restarts, history>>

(* openFixed: identities are exchanged, the session waits for the buyer.   *)
FixedReady(a) ==
  /\ a \in sessions \cap FixedPrice
  /\ sessions' = sessions \ {a}
  /\ fixedSessions' = fixedSessions \cup {a}
  /\ UNCHANGED <<store, reserved, task, world, told, restarts, history>>

(* pruneFixedSessions, a minute later.                                     *)
FixedExpires(a) ==
  /\ a \in fixedSessions
  /\ fixedSessions' = fixedSessions \ {a}
  /\ UNCHANGED <<store, sessions, reserved, task, world, told, restarts, history>>

(* run: the negotiation agreed; the signed agreement is offered.           *)
NegotiationOffers(a) ==
  /\ a \in sessions \ FixedPrice
  /\ offered' = offered \cup {a}
  /\ sessions' = sessions \ {a}
  /\ UNCHANGED <<channels, accepted, settledHashes, settledTxs, settled, fixedSessions,
                 reserved, task, world, told, restarts, history>>

Overlaps(pcs, a) == \E k \in Tasks : task[k].pc \in pcs /\ task[k].a = a
(* History: a handler of this kind starts while others of it are at pcs.   *)
Note(kind, pcs, a) == dup' = IF Overlaps(pcs, a) THEN dup \cup {<<kind, a>>} ELSE dup

(* signFixed: looks the session up, verifies for a while, offers.          *)
SignFrame(k, a) ==
  /\ a \in fixedSessions
  /\ Start(k, "sign", a, None)
  /\ Note("sign", {"sign"}, a)
  /\ UNCHANGED <<store, memory, world, told, restarts, overlapped>>

SignReturns(k) ==
  /\ At(k, "sign")
  /\ offered' \in {offered, offered \cup {task[k].a}}   \* rejected, or offered
  /\ fixedSessions' = fixedSessions \ {task[k].a}
  /\ End(k)
  /\ UNCHANGED <<channels, accepted, settledHashes, settledTxs, settled, sessions,
                 reserved, world, told, restarts, history>>

(* acceptAgreement: getOffered, then signature, anchors and commitment are *)
(* verified, then store.accept, which does not look at offered again.      *)
AcceptFrame(k, a) ==
  /\ a \in offered
  /\ Start(k, "accept", a, None)
  /\ Note("accept", {"accept"}, a)
  /\ UNCHANGED <<store, memory, world, told, restarts, overlapped>>

(* Mutant: the offer stays in the store.                                   *)
AcceptVerified_KeepsOffer(k) ==
  /\ At(k, "accept")
  /\ accepted' = accepted \cup {task[k].a}
  /\ End(k)
  /\ UNCHANGED <<channels, offered, settledHashes, settledTxs, settled, memory,
                 world, told, restarts, history>>

AcceptVerified(k) ==
  /\ At(k, "accept")
  /\ offered' = offered \ {task[k].a}
  /\ accepted' = accepted \cup {task[k].a}
  /\ End(k)
  /\ UNCHANGED <<channels, settledHashes, settledTxs, settled, memory,
                 world, told, restarts, history>>

AcceptRejected(k) ==
  /\ At(k, "accept")
  /\ End(k)
  /\ UNCHANGED <<store, memory, world, told, restarts, history>>

-----------------------------------------------------------------------------
(* Settlement *)

Tell(reply) == told' = told \cup {reply}
TryTell(reply) == Tell(reply) \/ UNCHANGED told     \* the send may fail

(* settle, of what is already settled with this transaction: answer again, *)
(* and send a legacy delivery again.                                       *)
SettleAgain(a, t) ==
  /\ settled[a].tx = t
  /\ \/ Tell(<<"settled", a, t>>)
     \/ /\ a \in Legacy /\ settled[a].delivery # None
        /\ told' = told \cup {<<"settled", a, t>>, <<"delivered", a, settled[a].evidence>>}
  /\ UNCHANGED <<store, memory, task, world, restarts, history>>

(* Mutant: the list of settled transactions is not consulted.              *)
MayVerify_IgnoreSettledTxs(a, t) ==
  /\ settled[a].tx # t
  /\ a \notin settledHashes
  /\ a \in accepted
  /\ a \in X402 \/ t \notin reserved

(* The early returns of settle ("payment_replayed", "unknown_agreement")   *)
(* and the first look of the gate, which the x402 verifier does not have.  *)
MayVerify(a, t) ==
  /\ settled[a].tx # t
  /\ a \notin settledHashes /\ t \notin settledTxs
  /\ a \in accepted
  /\ a \in X402 \/ t \notin reserved

Seen(t) == \E k \in Tasks : task[k].pc = "lookup" /\ task[k].tx = t

SettleFrame(k, a, t) ==
  /\ MayVerify(a, t)
  /\ Start(k, "lookup", a, t)
  /\ overlapped' = IF Seen(t) THEN overlapped \cup {t} ELSE overlapped
  /\ UNCHANGED <<store, memory, world, told, restarts, dup>>

(* Mutant: the gate does not look at the status of the transaction.        *)
LookupOk_Unconfirmed(k) ==
  /\ At(k, "lookup")
  /\ task[k].tx \in Pays[task[k].a]
  /\ reserved' = IF task[k].a \in X402 THEN reserved ELSE reserved \cup {task[k].tx}
  /\ Goto(k, "commit")
  /\ UNCHANGED <<store, sessions, fixedSessions, world, told, restarts, history>>

(* The transaction reads as confirmed and pays the agreement: the gate     *)
(* reserves it.                                                            *)
LookupOk(k) ==
  /\ At(k, "lookup")
  /\ task[k].tx \in paid /\ task[k].tx \in Pays[task[k].a]
  /\ reserved' = IF task[k].a \in X402 THEN reserved ELSE reserved \cup {task[k].tx}
  /\ Goto(k, "commit")
  /\ UNCHANGED <<store, sessions, fixedSessions, world, told, restarts, history>>

(* Not found, not confirmed or not hydrated yet: verifyPaymentWithRetry    *)
(* waits a second and asks the gate again, up to 30 times; the x402        *)
(* verifier is asked once.                                                 *)
LookupRetriable(k) ==
  /\ At(k, "lookup")
  /\ task[k].a \notin X402
  /\ Goto(k, "backoff")
  /\ UNCHANGED <<store, memory, world, told, restarts, history>>

(* A transaction that does not pay the agreement, or attempts exhausted.   *)
LookupRejected(k) ==
  /\ At(k, "lookup")
  /\ End(k)
  /\ UNCHANGED <<store, memory, world, told, restarts, history>>

RetryLookup(k) ==
  /\ At(k, "backoff")
  /\ IF task[k].tx \in reserved
     THEN End(k) /\ UNCHANGED overlapped     \* "this payment has already been used"
     ELSE /\ Goto(k, "lookup")
          /\ overlapped' = IF Seen(task[k].tx) THEN overlapped \cup {task[k].tx} ELSE overlapped
  /\ UNCHANGED <<store, memory, world, told, restarts, dup>>

(* Mutant: the store settles without an accepted record.                   *)
CommitSettlement_Unchecked(k) ==
  LET a == task[k].a  t == task[k].tx IN
  /\ At(k, "commit")
  /\ accepted' = accepted \ {a}
  /\ settledHashes' = settledHashes \cup {a}
  /\ settledTxs' = settledTxs \cup {t}
  /\ settled' = [settled EXCEPT ![a] = [NoRecord EXCEPT !.tx = t]]
  /\ \/ Tell(<<"settled", a, t>>) /\ (IF a \in Legacy THEN Goto(k, "work") ELSE End(k))
     \/ UNCHANGED told /\ End(k)
  /\ UNCHANGED <<channels, offered, memory, world, restarts, history>>

(* store.settle: throws unless the agreement is (still) accepted.  Then    *)
(* the buyer is told; if that send fails the handler ends there, and with  *)
(* it the delivery that a legacy agreement starts at once.                 *)
CommitSettlement(k) ==
  LET a == task[k].a  t == task[k].tx IN
  /\ At(k, "commit") /\ a \in accepted
  /\ accepted' = accepted \ {a}
  /\ settledHashes' = settledHashes \cup {a}
  /\ settledTxs' = settledTxs \cup {t}
  /\ settled' = [settled EXCEPT ![a] = [NoRecord EXCEPT !.tx = t]]
  /\ \/ Tell(<<"settled", a, t>>) /\ (IF a \in Legacy THEN Goto(k, "work") ELSE End(k))
     \/ UNCHANGED told /\ End(k)
  /\ UNCHANGED <<channels, offered, memory, world, restarts, history>>

CommitThrows(k) ==
  /\ At(k, "commit") /\ task[k].a \notin accepted
  /\ End(k)
  /\ UNCHANGED <<store, memory, world, told, restarts, history>>

-----------------------------------------------------------------------------
(* Delivery *)

Delivering == {"payEvidence", "work", "plan", "anchorArtifact", "anchorEvidence"}

(* retryDelivery: a Standard agreement first has its anchored payment      *)
(* evidence verified; a legacy one is answered or worked on at once.       *)
DeliveryFrame(k, a, recovery) ==
  /\ settled[a].tx # None
  /\ task[k].pc = "idle"
  /\ IF a \in Legacy /\ settled[a].delivery # None
     THEN Tell(<<"delivered", a, settled[a].evidence>>) /\ UNCHANGED <<task, dup>>
     ELSE /\ task' = [task EXCEPT ![k] =
                [Idle EXCEPT !.pc = IF a \in Legacy THEN "work" ELSE "payEvidence",
                             !.a = a, !.tx = settled[a].tx, !.recovery = recovery]]
          /\ Note("delivery", Delivering, a)
          /\ UNCHANGED told
  /\ UNCHANGED <<store, memory, world, restarts, overlapped>>

(* Mutant: delivery starts without the buyer's anchored payment evidence.  *)
EvidenceVerified_Skipped(k) ==
  /\ At(k, "payEvidence")
  /\ IF settled[task[k].a].delivery # None
     THEN Tell(<<"delivered", task[k].a, settled[task[k].a].evidence>>) /\ End(k)
     ELSE UNCHANGED told /\ Goto(k, "work")
  /\ UNCHANGED <<store, memory, world, restarts, history>>

(* verifyAnchoredPaymentEvidence succeeds: the evidence proves the exact   *)
(* settlement.  A delivery persisted meanwhile is sent again.              *)
EvidenceVerified(k) ==
  /\ At(k, "payEvidence")
  /\ payEvidence[task[k].a] = task[k].tx
  /\ IF settled[task[k].a].delivery # None
     THEN Tell(<<"delivered", task[k].a, settled[task[k].a].evidence>>) /\ End(k)
     ELSE UNCHANGED told /\ Goto(k, "work")
  /\ UNCHANGED <<store, memory, world, restarts, history>>

EvidenceRejected(k) ==
  /\ At(k, "payEvidence")
  /\ End(k)
  /\ UNCHANGED <<store, memory, world, told, restarts, history>>

(* store.delivered, then the buyer is told if the send succeeds.           *)
Persist(k, content, ev) ==
  /\ settled' = [settled EXCEPT ![task[k].a].delivery = content,
                                ![task[k].a].evidence = ev]
  /\ TryTell(<<"delivered", task[k].a, ev>>)
  /\ End(k)
  /\ UNCHANGED <<channels, offered, accepted, settledHashes, settledTxs>>

(* runDelivery: the agent's work comes out.  In a recovery the artifact    *)
(* already anchored replaces the new one, but not the new content hash.    *)
WorkReturns(k) ==
  /\ At(k, "work")
  /\ \E c \in Contents :
       IF task[k].a \in Legacy
       THEN Persist(k, c, None)
       ELSE /\ task' = [task EXCEPT ![k].pc = "plan", ![k].content = c,
                          ![k].artifact = IF task[k].recovery THEN artifact[task[k].a] ELSE None]
            /\ UNCHANGED <<store, told>>
  /\ UNCHANGED <<memory, world, restarts, history>>

(* The work or a check of it fails: delivery_failed.                       *)
WorkFails(k) ==
  /\ task[k].pc \in {"work", "plan"}
  /\ End(k)
  /\ UNCHANGED <<store, memory, world, told, restarts, history>>

(* The evidence address is read (in a recovery) and the evidence to        *)
(* persist is decided: the anchored one if it matches the new content and  *)
(* the artifact, otherwise a new one, to be anchored.                      *)
PlanEvidence(k) ==
  LET a == task[k].a
      c == task[k].content
      found == IF task[k].recovery THEN evidence[a] ELSE None
      reused == task[k].artifact # None
      fresh == [content |-> c, artifact |-> IF reused THEN task[k].artifact ELSE c]
  IN
  /\ At(k, "plan")
  /\ IF found # None
     THEN IF reused /\ found = fresh
          THEN Persist(k, c, found)
          ELSE End(k) /\ UNCHANGED <<store, told>>
     ELSE /\ task' = [task EXCEPT ![k].evidence = fresh,
                        ![k].pc = IF reused THEN "anchorEvidence" ELSE "anchorArtifact"]
          /\ UNCHANGED <<store, told>>
  /\ UNCHANGED <<memory, world, restarts, history>>

(* The delivery is anchored, and after it the evidence that refers to it.  *)
AnchorArtifact(k) ==
  /\ At(k, "anchorArtifact")
  /\ artifact' = [artifact EXCEPT ![task[k].a] = task[k].content]
  /\ Goto(k, "anchorEvidence")
  /\ UNCHANGED <<store, memory, paid, payEvidence, evidence, told, restarts, history>>

AnchorEvidence(k) ==
  /\ At(k, "anchorEvidence")
  /\ evidence' = [evidence EXCEPT ![task[k].a] = task[k].evidence]
  /\ Persist(k, task[k].content, task[k].evidence)
  /\ UNCHANGED <<memory, paid, payEvidence, artifact, restarts, history>>

(* delivery_failed.  The evidence may have been written all the same: its  *)
(* confirmation was missed, or it was broadcast behind a delivery anchor   *)
(* that was dropped.                                                       *)
AnchorFails(k) ==
  /\ task[k].pc \in {"anchorArtifact", "anchorEvidence"}
  /\ evidence' \in {evidence, [evidence EXCEPT ![task[k].a] = task[k].evidence]}
  /\ End(k)
  /\ UNCHANGED <<store, memory, paid, payEvidence, artifact, told, restarts, history>>

-----------------------------------------------------------------------------
(* Fulfilment *)

(* fulfilBundle: the buyer asks with a bundle that refers to evidence e.   *)
(* A fulfilled agreement is answered with its bundle, which changes        *)
(* nothing; the reply is not recorded in told.                             *)
FulfilFrame(k, a, e) ==
  /\ settled[a].delivery # None /\ settled[a].bundle = {}
  /\ task[k].pc = "idle"
  /\ task' = [task EXCEPT ![k] = [Idle EXCEPT !.pc = "verifyBundle", !.a = a, !.evidence = e]]
  /\ UNCHANGED <<store, memory, world, told, restarts, history>>

(* Mutant: the bundle's delivery evidence is not compared with the record. *)
StructureValid_AnyEvidence(a, e) ==
  a \in Standard => payEvidence[a] = settled[a].tx

(* structureValid: the bundle of a Standard agreement refers to the        *)
(* delivery evidence on record and to evidence of the recorded payment.    *)
StructureValid(a, e) ==
  /\ e = settled[a].evidence
  /\ a \in Standard => payEvidence[a] = settled[a].tx

BundleVerified(k) ==
  /\ At(k, "verifyBundle")
  /\ StructureValid(task[k].a, task[k].evidence)
  /\ Goto(k, "anchorBundle")
  /\ UNCHANGED <<store, memory, world, told, restarts, history>>

(* The seller's copy is anchored, stored and sent.                         *)
AnchorBundle(k) ==
  /\ At(k, "anchorBundle")
  /\ End(k)
  /\ settled' = [settled EXCEPT ![task[k].a].bundle = {task[k].evidence}]
  /\ UNCHANGED <<channels, offered, accepted, settledHashes, settledTxs,
                 memory, world, told, restarts, history>>

(* bad_bundle or fulfilment_failed.                                        *)
FulfilFails(k) ==
  /\ task[k].pc \in {"verifyBundle", "anchorBundle"}
  /\ End(k)
  /\ UNCHANGED <<store, memory, world, told, restarts, history>>

-----------------------------------------------------------------------------
(* The world: the buyer pays and anchors payment evidence; the process     *)
(* restarts and reads its state file.                                      *)

Pay(t) ==
  /\ t \notin paid
  /\ paid' = paid \cup {t}
  /\ UNCHANGED <<store, memory, task, payEvidence, artifact, evidence, told, restarts, history>>

AnchorPaymentEvidence(a, t) ==
  /\ <<"settled", a, t>> \in told /\ payEvidence[a] # t
  /\ payEvidence' = [payEvidence EXCEPT ![a] = t]
  /\ UNCHANGED <<store, memory, task, paid, artifact, evidence, told, restarts, history>>

Restart ==
  /\ restarts < MaxRestarts
  /\ restarts' = restarts + 1
  /\ sessions' = {} /\ fixedSessions' = {} /\ reserved' = {}
  /\ task' = [k \in Tasks |-> Idle]
  /\ UNCHANGED <<store, world, told, history>>

(* The frames handleMessage dispatches, each starting a handler.           *)
HandleMessage(k) ==
  \E a \in Agreements :
    \/ SignFrame(k, a) \/ AcceptFrame(k, a)
    \/ \E t \in Txs : SettleFrame(k, a, t)
    \/ \E recovery \in BOOLEAN : DeliveryFrame(k, a, recovery)
    \/ \E e \in Evidence \cup {None} : FulfilFrame(k, a, e)

Resume(k) ==
  \/ SignReturns(k) \/ AcceptVerified(k) \/ AcceptRejected(k)
  \/ LookupOk(k) \/ LookupRetriable(k) \/ LookupRejected(k) \/ RetryLookup(k)
  \/ CommitSettlement(k) \/ CommitThrows(k)
  \/ EvidenceVerified(k) \/ EvidenceRejected(k)
  \/ WorkReturns(k) \/ WorkFails(k) \/ PlanEvidence(k)
  \/ AnchorArtifact(k) \/ AnchorEvidence(k) \/ AnchorFails(k)
  \/ BundleVerified(k) \/ AnchorBundle(k) \/ FulfilFails(k)

Next ==
  \/ \E a \in Agreements :
       \/ Open(a) \/ SessionFails(a) \/ NegotiationOffers(a)
       \/ FixedReady(a) \/ FixedExpires(a)
       \/ \E t \in Txs : SettleAgain(a, t) \/ AnchorPaymentEvidence(a, t)
  \/ \E k \in Tasks : HandleMessage(k) \/ Resume(k)
  \/ \E t \in Txs : Pay(t)
  \/ Restart

Spec == Init /\ [][Next]_vars

-----------------------------------------------------------------------------
(* Properties *)

Replies ==
  ({"settled"} \X Agreements \X Txs)
    \cup ({"delivered"} \X Agreements \X (Evidence \cup {None}))

(* Types of the variables; a handler past its first await has its inputs.  *)
TypeOK ==
  /\ channels \subseteq Agreements /\ offered \subseteq Agreements
  /\ accepted \subseteq Agreements /\ settledHashes \subseteq Agreements
  /\ settledTxs \subseteq Txs
  /\ settled \in [Agreements -> Record]
  /\ sessions \subseteq Agreements /\ fixedSessions \subseteq FixedPrice
  /\ reserved \subseteq Txs
  /\ task \in [Tasks -> Task]
  /\ paid \subseteq Txs
  /\ payEvidence \in [Agreements -> Txs \cup {None}]
  /\ artifact \in [Agreements -> Contents \cup {None}]
  /\ evidence \in [Agreements -> Evidence \cup {None}]
  /\ told \subseteq Replies
  /\ restarts \in 0..MaxRestarts
  /\ overlapped \subseteq Txs
  /\ dup \subseteq {"sign", "accept", "delivery"} \X Agreements

(* Handlers of these kinds never ran at once for the agreement.            *)
Undisturbed(kinds, a) == \A kind \in kinds : <<kind, a>> \notin dup

(* An agreement is settled only by a confirmed transaction that pays it.   *)
SettledIsPaid ==
  \A a \in Agreements : settled[a].tx # None =>
    settled[a].tx \in paid \cap Pays[a]

(* A payment settles one agreement, whatever the restarts in between: the  *)
(* durable list of settled transactions and the gate's reservations cover  *)
(* for each other unless two lookups of the transaction overlapped.        *)
OneAgreementPerPayment ==
  \A t \in Txs \ overlapped : \A a, b \in Agreements :
    settled[a].tx = t /\ settled[b].tx = t => a = b

(* Unless sign or accept frames of it overlapped, an agreement is in one   *)
(* place: on a channel, being signed, offered, accepted or settled.        *)
OnePlace ==
  \A a \in Agreements : Undisturbed({"sign", "accept"}, a) =>
    /\ a \in sessions \cup fixedSessions \/ Overlaps({"sign"}, a) =>
         a \notin offered \cup accepted \cup settledHashes
    /\ a \in offered => a \notin accepted \cup settledHashes
    /\ a \in accepted => a \notin settledHashes

(* Work starts, and is anchored, only for a settled agreement, and for a   *)
(* Standard one only after the buyer anchored payment evidence.            *)
WorkIsPaidFor ==
  \A a \in Agreements :
    artifact[a] # None \/ Overlaps(Delivering \ {"payEvidence"}, a) =>
      settled[a].tx # None /\ (a \in Standard => payEvidence[a] # None)

(* What the buyer was told survives restarts: a settled agreement stays on *)
(* the anti-replay lists, and (unless sign or accept frames overlapped) a  *)
(* settled one keeps its transaction and a delivered one its delivery.     *)
ToldIsDurable ==
  \A a \in Agreements :
    /\ \A t \in Txs : <<"settled", a, t>> \in told =>
         /\ a \in settledHashes /\ t \in settledTxs
         /\ Undisturbed({"sign", "accept"}, a) => settled[a].tx = t
    /\ \A e \in Evidence \cup {None} :
         <<"delivered", a, e>> \in told /\ Undisturbed({"sign", "accept"}, a) =>
           settled[a].delivery # None

(* The delivery evidence on record is the one on chain, with the artifact  *)
(* it refers to, unless two delivery requests of the agreement overlapped. *)
RecordIsAnchored ==
  \A a \in Standard :
    settled[a].delivery # None /\ Undisturbed({"sign", "accept", "delivery"}, a) =>
      /\ settled[a].evidence # None /\ evidence[a] = settled[a].evidence
      /\ artifact[a] = evidence[a].artifact

(* The seller's bundle refers to the delivery evidence on record.          *)
BundleMatchesDelivery ==
  \A a \in Agreements : Undisturbed({"sign", "accept", "delivery"}, a) =>
    settled[a].bundle \subseteq {settled[a].evidence}

(* The claim of buyer-client.ts that a delivery retry is idempotent: the   *)
(* delivery evidence the buyer was sent stays the one on record.           *)
DeliveryIsStable ==
  [][\A a \in Agreements : settled[a].evidence # None =>
       settled'[a].evidence = settled[a].evidence]_vars

(* What a dispute over a Standard delivery is decided on: the record, the  *)
(* anchored evidence with its artifact and the seller's bundle agree.      *)
DeliveryOnRecord == RecordIsAnchored /\ BundleMatchesDelivery
=============================================================================
