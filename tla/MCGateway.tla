----------------------------- MODULE MCGateway -----------------------------
(***************************************************************************)
(* The gateway process: its paid endpoint and, beside it, the butler demo  *)
(* with the receipts of its wallet queue.  The two share no state of       *)
(* theirs, so that one of them works and the other is at rest.             *)
(***************************************************************************)
EXTENDS Gateway, AnchorReceipts, TLC

CONSTANTS r1, r2, t1, t2, cheap, dear

MCPrice == cheap :> 1 @@ dear :> 2

(* t1 pays for either agent; t2 only for the cheap one. *)
MCTransfer ==
  t1 :> [toGateway |-> TRUE, native |-> TRUE, amount |-> 2]
    @@ t2 :> [toGateway |-> TRUE, native |-> TRUE, amount |-> 1]

RestReceipts ==
  /\ limiter = [count |-> 0, active |-> 0, windows |-> MaxWindows]
  /\ demo = [d \in Demos |-> "done"] /\ wrote = Others
  /\ receipts = {} /\ overdue = {} /\ created = <<>> /\ expired = {}
  /\ receipt = [d \in Demos |-> [status |-> "none", attempts |-> 0]]
  /\ queue = <<>> /\ running = Idle /\ nonce = 0
  /\ tx = [j \in Jobs |-> "none"] /\ anchored = {} /\ losses = 0 /\ early = FALSE

RestGateway ==
  /\ rails = {} /\ chain = [t \in Txs |-> "confirmed"] /\ reserved = {} /\ excused = {}
  /\ req = [r \in Requests |-> [pc |-> "done", rail |-> "none", tx |-> NoTx, agent |-> cheap,
                                result |-> FALSE, code |-> 0]]
  /\ x402 = [r \in Requests |-> "none"] /\ restarts = MaxRestarts

MCInit == (Init /\ RestReceipts) \/ (RestGateway /\ ReceiptsInit)
MCNext == \/ Next /\ UNCHANGED receiptVars
          \/ ReceiptsNext /\ UNCHANGED vars
mcVars == <<vars, receiptVars>>

\* Every await of a request settles (see FairSpec of Gateway); the wallet queue
\* takes its next step and the chain includes or loses what it admitted.
MCFairSpec ==
  /\ MCInit /\ [][MCNext]_mcVars
  /\ \A r \in Requests : WF_mcVars(Resume(r) /\ UNCHANGED receiptVars)
  /\ WF_mcVars(QueueStep /\ UNCHANGED vars)
  /\ WF_mcVars((\E j \in Jobs : IncludeJob(j)) /\ UNCHANGED vars)

\* Whoever waits on the gateway is answered: a request of the paid endpoint, and
\* the poller of a receipt, whatever the chain loses.
GatewayAnswers == EveryRequestAnswered /\ ReceiptsEnd
=============================================================================
