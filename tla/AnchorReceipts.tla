---------------------------- MODULE AnchorReceipts ----------------------------
(***************************************************************************)
(* The butler demo of the gateway and its on-chain receipts: the demo's    *)
(* rate limiter (butler-web.ts), the receipt store (AsyncReceiptStore,     *)
(* server.ts) and the wallet queue every write of the gateway goes through *)
(* (makeWalletSerializer, ports.ts).                                       *)
(*                                                                         *)
(* The queue does not follow its own transaction: it reads the wallet's    *)
(* nonce before the broadcast and takes any later advance of that nonce    *)
(* for the inclusion.  External: the chain, which includes or loses the    *)
(* one transaction that holds the wallet's next nonce.                     *)
(***************************************************************************)
EXTENDS Integers, Sequences, FiniteSets

CONSTANTS
  Demos,          \* butler requests, each served once; a receipt has its request's name
  Others,         \* other wallet writes: output anchors of paid calls, DAHR fetches
  maxPerWindow, maxConcurrent,   \* DemoRateLimiter
  maxReceipts,    \* AsyncReceiptStore.maxReceipts
  maxAttempts,    \* attempts per receipt, retries included
  MaxLosses,      \* bound on lost transactions and failed nonce reads
  MaxWindows      \* bound on the rate windows that pass

ASSUME ReceiptAssumption ==
  /\ Demos \cap Others = {}
  /\ {maxPerWindow, maxConcurrent, maxReceipts, maxAttempts} \subseteq Nat \ {0}
  /\ {MaxLosses, MaxWindows} \subseteq Nat

VARIABLES
  limiter,   \* DemoRateLimiter: [count, active], and the windows passed (bounded)
  demo,      \* demo[d]: "new", "running", "done" or "refused"
  receipts,  \* the store: a Map, which iterates in the order of creation
  overdue,   \* receipts not updated for retentionMs
  receipt,   \* receipt[d]: its status and attempts, also after it left the store
  queue,     \* the wallet queue, the running job first
  running,   \* the running job: [at, before], before being the nonce it read
  wrote,     \* the other writes asked for so far
  nonce,     \* the wallet's nonce on the chain
  tx,        \* tx[j]: the last transaction of job j
  anchored,  \* the jobs of which some transaction was included
  losses,    \* lost transactions and failed waits so far (bounded)
  created,   \* history: the receipts in order of creation
  expired,   \* history: receipts dropped for their age
  early      \* history: a wait ended while its transaction was still pending

walletVars == <<queue, running, nonce, tx, anchored, losses, early>>
storeVars == <<receipts, overdue, receipt, created, expired>>
demoVars == <<limiter, demo, wrote>>
receiptVars == <<demoVars, storeVars, walletVars>>

Jobs == Demos \cup Others
Idle == [at |-> "idle", before |-> 0]
ReceiptsInit ==
  /\ limiter = [count |-> 0, active |-> 0, windows |-> 0]
  /\ demo = [d \in Demos |-> "new"]
  /\ receipts = {} /\ overdue = {} /\ created = <<>> /\ expired = {}
  /\ receipt = [d \in Demos |-> [status |-> "none", attempts |-> 0]]
  /\ queue = <<>> /\ running = Idle /\ wrote = {}
  /\ nonce = 0 /\ tx = [j \in Jobs |-> "none"] /\ anchored = {}
  /\ losses = 0 /\ early = FALSE

-----------------------------------------------------------------------------
(* The store.  Every update refreshes updatedAt.                           *)
Marked(d, status) == receipt' = [receipt EXCEPT ![d].status = status]

(* The receipts created after that of d.                                   *)
Younger(d) == {created[j] : j \in {k \in DOMAIN created : \E i \in 1..(k - 1) : created[i] = d}}

(* The n youngest receipts of kept.                                        *)
Youngest(kept, n) == {d \in kept : Cardinality(kept \cap Younger(d)) < n}

(* A slip: prune makes room for one receipt too many.                      *)
Pruned_TooFar(gone) == Youngest(receipts \ gone, maxReceipts - 2)

(* prune drops the receipts out of retention and then the oldest, until    *)
(* there is room for one more; it also runs when a receipt is only read.   *)
Pruned(gone) == Youngest(receipts \ gone, maxReceipts - 1)

GrowOld(d) ==
  /\ d \notin overdue /\ receipt[d].status # "none"
  /\ overdue' = overdue \cup {d}
  /\ UNCHANGED <<demoVars, walletVars, receipts, receipt, created, expired>>

Expire == expired' = expired \cup (overdue \cap receipts)

(* GET /demo/butler/receipts/<id>                                          *)
Poll ==
  /\ receipts' = Pruned(overdue) /\ Expire
  /\ UNCHANGED <<demoVars, walletVars, overdue, receipt, created>>

Schedule(j) == queue' = Append(queue, j)

(* POST .../retry: only a failed receipt is queued again, under its name.  *)
RetryReceipt(d) ==
  /\ d \in receipts
  /\ receipt[d].status = "failed" /\ receipt[d].attempts < maxAttempts
  /\ receipt' = [receipt EXCEPT ![d] = [status |-> "queued", attempts |-> @.attempts + 1]]
  /\ overdue' = overdue \ {d}
  /\ Schedule(d)
  /\ UNCHANGED <<demoVars, receipts, created, expired, running, nonce, anchored, tx, losses, early>>

-----------------------------------------------------------------------------
(* POST /demo/butler: enter, then the agent.                               *)
Enter(d) ==
  /\ demo[d] = "new"
  /\ LET busy == limiter.active >= maxConcurrent \/ limiter.count >= maxPerWindow IN
     /\ demo' = [demo EXCEPT ![d] = IF busy THEN "refused" ELSE "running"]
     /\ limiter' = IF busy THEN limiter
                   ELSE [limiter EXCEPT !.count = @ + 1, !.active = @ + 1]
  /\ UNCHANGED <<wrote, storeVars, walletVars>>

NewWindow ==
  /\ limiter.windows < MaxWindows /\ limiter.count > 0
  /\ limiter' = [limiter EXCEPT !.count = 0, !.windows = @ + 1]
  /\ UNCHANGED <<demo, wrote, storeVars, walletVars>>

Leave(d) ==
  /\ demo' = [demo EXCEPT ![d] = "done"]
  /\ limiter' = [limiter EXCEPT !.active = @ - 1]
  /\ UNCHANGED wrote

ButlerFails(d) == demo[d] = "running" /\ Leave(d) /\ UNCHANGED <<storeVars, walletVars>>

(* The result is answered at once; its receipt is created and queued.      *)
ButlerAnswers(d) ==
  /\ demo[d] = "running"
  /\ receipts' = Pruned(overdue) \cup {d} /\ Expire
  /\ created' = Append(created, d)
  /\ receipt' = [receipt EXCEPT ![d] = [status |-> "queued", attempts |-> 1]]
  /\ Schedule(d)
  /\ Leave(d)
  /\ UNCHANGED <<overdue, running, nonce, anchored, tx, losses, early>>

WriteBeside(j) ==
  /\ j \notin wrote
  /\ wrote' = wrote \cup {j}
  /\ Schedule(j)
  /\ UNCHANGED <<limiter, demo, storeVars, running, nonce, anchored, tx, losses, early>>

-----------------------------------------------------------------------------
(* The wallet queue.                                                       *)
Told(j, status) ==
  IF j \in Demos THEN Marked(j, status) /\ overdue' = overdue \ {j} /\ UNCHANGED <<receipts, created, expired>>
                 ELSE UNCHANGED storeVars
JobOver == queue' = Tail(queue) /\ running' = Idle

(* onStart, then the nonce is read.                                        *)
StartJob ==
  /\ queue # <<>> /\ running.at = "idle"
  /\ running' = [at |-> "started", before |-> nonce]
  /\ Told(Head(queue), "anchoring")
  /\ UNCHANGED <<demoVars, queue, nonce, anchored, tx, losses, early>>

NoncePending == \E j \in Jobs : tx[j] = "pending"

BroadcastJob ==
  /\ running.at = "started" /\ ~NoncePending
  /\ tx' = [tx EXCEPT ![Head(queue)] = "pending"]
  /\ running' = [running EXCEPT !.at = "broadcast"]
  /\ Told(Head(queue), "broadcast")
  /\ UNCHANGED <<demoVars, queue, nonce, anchored, losses, early>>

(* The node refuses a nonce that is taken.                                 *)
BroadcastRefused ==
  /\ running.at = "started" /\ NoncePending
  /\ Told(Head(queue), "failed") /\ JobOver
  /\ UNCHANGED <<demoVars, nonce, anchored, tx, losses, early>>

(* waitForAdvance returns.                                                 *)
Advanced == nonce > running.before

WaitReturns ==
  /\ running.at = "broadcast" /\ Advanced
  /\ Told(Head(queue), "confirmed") /\ JobOver
  /\ UNCHANGED <<demoVars, nonce, anchored, tx, losses, early>>

(* 90 seconds pass, or a read of the nonce fails.  If the transaction is   *)
(* still pending, only losses bounds how often.                            *)
WaitFails ==
  LET pending == tx[Head(queue)] = "pending" IN
  /\ running.at = "broadcast" /\ ~Advanced
  /\ pending => losses < MaxLosses
  /\ losses' = IF pending THEN losses + 1 ELSE losses
  /\ early' = (early \/ pending)
  /\ Told(Head(queue), "failed") /\ JobOver
  /\ UNCHANGED <<demoVars, nonce, anchored, tx>>

IncludeJob(j) ==
  /\ tx[j] = "pending"
  /\ tx' = [tx EXCEPT ![j] = "included"]
  /\ nonce' = nonce + 1 /\ anchored' = anchored \cup {j}
  /\ UNCHANGED <<demoVars, storeVars, queue, running, losses, early>>

LoseJob(j) ==
  /\ tx[j] = "pending" /\ losses < MaxLosses
  /\ tx' = [tx EXCEPT ![j] = "lost"]
  /\ losses' = losses + 1
  /\ UNCHANGED <<demoVars, storeVars, queue, running, nonce, anchored, early>>

QueueStep == StartJob \/ BroadcastJob \/ BroadcastRefused \/ WaitReturns \/ WaitFails

ReceiptsNext ==
  \/ \E d \in Demos : Enter(d) \/ ButlerFails(d) \/ ButlerAnswers(d)
                      \/ RetryReceipt(d) \/ GrowOld(d)
  \/ \E j \in Others : WriteBeside(j)
  \/ \E j \in Jobs : IncludeJob(j) \/ LoseJob(j)
  \/ NewWindow \/ Poll \/ QueueStep

ReceiptsSpec == ReceiptsInit /\ [][ReceiptsNext]_receiptVars

-----------------------------------------------------------------------------
(* As long as no wait ended before its transaction, the queue's shortcut   *)
(* is sound: what it reports as confirmed is on the chain, and the wallet  *)
(* never has two transactions under way.                                   *)
ConfirmedIsAnchored ==
  ~early => /\ \A d \in Demos : receipt[d].status = "confirmed" => d \in anchored
            /\ \A j \in Jobs : tx[j] = "pending" => running.at = "broadcast" /\ Head(queue) = j

(* A receipt within its retention leaves the store only when at least      *)
(* maxReceipts - 1 younger ones were created (reading prunes too, so one   *)
(* place always stays free).                                               *)
KeptWhileRecent ==
  \A i \in DOMAIN created :
    \/ created[i] \in receipts
    \/ created[i] \in expired
    \/ Len(created) - i >= maxReceipts - 1

(* The limiter counts exactly the calls being served, whatever ends them,  *)
(* so the demo never stays busy.                                           *)
SlotsAreGivenBack ==
  limiter.active = Cardinality({d \in Demos : demo[d] = "running"})

ReceiptsAreHonest == ConfirmedIsAnchored /\ KeptWhileRecent /\ SlotsAreGivenBack

(* A receipt that was queued ends confirmed or failed: no lost transaction *)
(* and no job before it in the queue blocks it.                            *)
ReceiptsEnd ==
  \A d \in Demos : receipt[d].status = "queued" ~> receipt[d].status \in {"confirmed", "failed"}
=============================================================================
