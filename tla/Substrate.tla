------------------------------ MODULE Substrate ------------------------------
(***************************************************************************)
(* LiveSubstrate (src/live/substrate.ts): the one wallet view through      *)
(* which the agents write to the chain.  Every write goes through the      *)
(* promise chain anchorTail; a write reserves the next wallet nonce when   *)
(* the node admits its transaction, and only a transaction whose nonce is  *)
(* the chain's next one can be included.  A call is anchor (it holds the   *)
(* queue until inclusion), anchorAccepted (until admission; the inclusion  *)
(* is awaited by confirmAcceptedAnchor, outside the queue) or              *)
(* anchorBatchWithReceipts (all admissions, then all inclusions).          *)
(*                                                                         *)
(* Outside src/ and so external: the node.  It refuses a nonce that is     *)
(* used or taken, keeps a future nonce in its mempool, and may lose an     *)
(* admitted transaction or the answer to a broadcast.                      *)
(***************************************************************************)
EXTENDS Integers, Sequences, FiniteSets

CONSTANTS
  Calls,          \* writes the agent asks for, each once
  Kind,           \* Kind[c]: "confirmed", "accepted" or "batch"
  Entries,        \* Entries[c]: sequence of [slot, value]; one unless a batch
  Programs,       \* storage-program addresses
  maxBroadcasts,  \* visibility.maxBroadcasts
  MaxChainFaults, \* bound on refused broadcasts, lost answers and lost transactions
  MaxWrites,      \* bound on the calls made in one behaviour
  MaxPayments     \* bound on payments the wallet makes beside the substrate

(* The names of what a batch or an accepted write anchors carry the job    *)
(* (standardAnchorName), so that only anchor writes a slot again.          *)
ASSUME SubstrateAssumption ==
  /\ Kind \in [Calls -> {"confirmed", "accepted", "batch"}]
  /\ \A c \in Calls :
       /\ Entries[c] \in Seq([slot : Programs, value : Nat \ {0}])
       /\ Kind[c] # "batch" => Len(Entries[c]) = 1
       /\ \A d \in Calls : \A k \in 1..Len(Entries[c]), l \in 1..Len(Entries[d]) :
            <<c, k>> # <<d, l>> /\ Entries[c][k].slot = Entries[d][l].slot => Kind[c] = "confirmed"
  /\ {maxBroadcasts, MaxChainFaults, MaxWrites, MaxPayments} \subseteq Nat

VARIABLES
  nextNonce,    \* the local reservation; 0 while undefined
  anchorTail,   \* the calls queued behind one another, the running one first
  asked,        \* the calls made so far
  write,        \* write[<<c, k>>]: entry k of call c
  pool,         \* every transaction the node ever admitted, in order
  localWrites,  \* slot -> the value this view anchored last (0: none)
  chainFaults,  \* faults so far (bounded)
  payments,     \* payments so far (bounded)
  lost          \* history: an answer to an admitted broadcast was lost

subVars ==
  <<nextNonce, anchorTail, asked, write, pool, localWrites, chainFaults, payments, lost>>

Writes == UNION {{c} \X (1..Len(Entries[c])) : c \in Calls}
EntryOf(w) == Entries[w[1]][w[2]]

(* Its nonce, its last admitted transaction, the broadcasts and the rounds *)
(* of broadcasts so far, and the nonce that was known when it began.       *)
State(at, nonce, tx, tries, rounds, known) ==
  [at |-> at, nonce |-> nonce, tx |-> tx, tries |-> tries, rounds |-> rounds, known |-> known]
NoWrite == State("waiting", 0, 0, 0, 0, 0)
Becomes(w, state) == write' = [write EXCEPT ![w] = state]

SubInit ==
  /\ nextNonce = 0 /\ anchorTail = <<>> /\ asked = {} /\ pool = <<>>
  /\ write = [w \in Writes |-> NoWrite]
  /\ localWrites = [s \in Programs |-> 0]
  /\ chainFaults = 0 /\ payments = 0 /\ lost = FALSE

-----------------------------------------------------------------------------
(* The chain (external).                                                   *)
Included == {t \in DOMAIN pool : pool[t].at = "included"}
ChainNext == Cardinality(Included) + 1
Admissible(n) ==
  n >= ChainNext /\ ~\E t \in DOMAIN pool : pool[t].at = "pending" /\ pool[t].nonce = n

IncludeTx(t) ==
  /\ pool[t].at = "pending" /\ pool[t].nonce = ChainNext
  /\ pool' = [pool EXCEPT ![t].at = "included"]
  /\ UNCHANGED <<nextNonce, anchorTail, asked, write, localWrites, chainFaults, payments, lost>>

(* A fork drops an admitted transaction, or its execution fails.           *)
DropTx(t) ==
  /\ pool[t].at = "pending" /\ chainFaults < MaxChainFaults
  /\ pool' = [pool EXCEPT ![t].at = "gone"]
  /\ chainFaults' = chainFaults + 1
  /\ UNCHANGED <<nextNonce, anchorTail, asked, write, localWrites, payments, lost>>

-----------------------------------------------------------------------------
(* A slip: the reservation follows the last nonce used, also backwards.    *)
Reserved_Last(n) == n + 1

(* nextNonce after nonce n was used: a rebroadcast of an old nonce must    *)
(* not take the reservation back.                                          *)
Reserved(n) == IF n >= nextNonce THEN n + 1 ELSE nextNonce

AskAnchor(c) ==
  /\ c \notin asked /\ Cardinality(asked) < MaxWrites
  /\ asked' = asked \cup {c}
  /\ anchorTail' = Append(anchorTail, c)
  /\ UNCHANGED <<nextNonce, write, pool, localWrites, chainFaults, payments, lost>>

(* The running call takes up its next entry, with the nonce it then knows. *)
BeginWrite(w) ==
  /\ write[w].at = "waiting"
  /\ anchorTail # <<>> /\ Head(anchorTail) = w[1]
  /\ \A k \in 1..(w[2] - 1) : write[<<w[1], k>>].tx # 0
  /\ Becomes(w, State("sending", nextNonce, 0, 0, 0, nextNonce))
  /\ UNCHANGED <<nextNonce, anchorTail, asked, pool, localWrites, chainFaults, payments, lost>>

(* Confirmation of a batch starts when all its writes are admitted.        *)
WritesOf(c) == {c} \X (1..Len(Entries[c]))
Watched(w) == \A v \in WritesOf(w[1]) : write[v].tx # 0
MayRebroadcast(w) ==
  IF Kind[w[1]] = "confirmed" THEN write[w].tries < maxBroadcasts
                              ELSE write[w].rounds + 1 < maxBroadcasts

(* Without a known nonce the adapter asks the chain for one.               *)
NonceFor(w) == IF write[w].nonce = 0 THEN ChainNext ELSE write[w].nonce
Broadcasted(w) == Append(pool, [by |-> {w}, nonce |-> NonceFor(w), at |-> "pending"])

(* The broadcast is admitted and its answer arrives.                       *)
Admitted(w) ==
  /\ write[w].at = "sending" /\ Admissible(NonceFor(w))
  /\ pool' = Broadcasted(w)
  /\ LET x == write[w] IN
     Becomes(w, State("sent", NonceFor(w), Len(pool) + 1, x.tries + 1, x.rounds, x.known))
  /\ nextNonce' = Reserved(NonceFor(w))
  /\ UNCHANGED <<anchorTail, asked, localWrites, chainFaults, payments, lost>>

OneTryLess(w) ==
  LET x == write[w] IN
  Becomes(w, State(IF x.tries + 1 >= maxBroadcasts THEN "failed" ELSE "sending",
                   x.nonce, x.tx, x.tries + 1, x.rounds, x.known))

(* The broadcast is admitted but its answer is lost: to the code this is a *)
(* refusal, and it tries again.                                            *)
AnswerLost(w) ==
  /\ write[w].at = "sending" /\ Admissible(NonceFor(w)) /\ chainFaults < MaxChainFaults
  /\ pool' = Broadcasted(w)
  /\ OneTryLess(w)
  /\ chainFaults' = chainFaults + 1 /\ lost' = TRUE
  /\ UNCHANGED <<nextNonce, anchorTail, asked, localWrites, payments>>

Refused(w) ==
  /\ write[w].at = "sending" /\ ~Admissible(NonceFor(w))
  /\ OneTryLess(w)
  /\ UNCHANGED <<nextNonce, anchorTail, asked, pool, localWrites, chainFaults, payments, lost>>

(* The transaction is gone: the same nonce is broadcast again.  anchor has *)
(* one budget of broadcasts; confirmAcceptedAnchor allows each rebroadcast *)
(* its own.                                                                *)
Rebroadcast(w) ==
  /\ write[w].at = "sent" /\ Watched(w) /\ MayRebroadcast(w)
  /\ pool[write[w].tx].at = "gone"
  /\ LET x == write[w] IN
     Becomes(w, State("sending", x.nonce, x.tx, IF Kind[w[1]] = "confirmed" THEN x.tries ELSE 0,
                      x.rounds + 1, x.known))
  /\ UNCHANGED <<nextNonce, anchorTail, asked, pool, localWrites, chainFaults, payments, lost>>

(* The inclusion is seen: the receipt is issued and the value becomes what *)
(* read answers for the slot.                                              *)
Receipt(w) ==
  /\ write[w].at = "sent" /\ Watched(w)
  /\ pool[write[w].tx].at = "included"
  /\ Becomes(w, [write[w] EXCEPT !.at = "confirmed"])
  /\ localWrites' = [localWrites EXCEPT ![EntryOf(w).slot] = EntryOf(w).value]
  /\ UNCHANGED <<nextNonce, anchorTail, asked, pool, chainFaults, payments, lost>>

(* The polls run out: "refusing a duplicate broadcast".                    *)
GiveUp(w) ==
  /\ write[w].at = "sent" /\ Watched(w)
  /\ \/ pool[write[w].tx].at = "pending"
     \/ pool[write[w].tx].at = "gone" /\ ~MayRebroadcast(w)
  /\ Becomes(w, [write[w] EXCEPT !.at = "failed"])
  /\ UNCHANGED <<nextNonce, anchorTail, asked, pool, localWrites, chainFaults, payments, lost>>

(* A slip: a batch waits for every receipt although one failed.            *)
Settled_WaitsForAll(c) ==
  IF Kind[c] = "accepted" THEN write[<<c, 1>>].tx # 0 \/ write[<<c, 1>>].at = "failed"
  ELSE \/ \A w \in WritesOf(c) : write[w].at = "confirmed"
       \/ Kind[c] = "confirmed" /\ write[<<c, 1>>].at = "failed"

(* When a call stops holding the queue.  Promise.all fails with the first  *)
(* failure, the other confirmations of the batch go on behind it.          *)
Settled(c) ==
  IF Kind[c] = "accepted" THEN write[<<c, 1>>].tx # 0 \/ write[<<c, 1>>].at = "failed"
  ELSE \/ \A w \in WritesOf(c) : write[w].at = "confirmed"
       \/ \E w \in WritesOf(c) : write[w].at = "failed"

LeaveQueue ==
  /\ anchorTail # <<>> /\ Settled(Head(anchorTail))
  /\ anchorTail' = Tail(anchorTail)
  /\ UNCHANGED <<nextNonce, asked, write, pool, localWrites, chainFaults, payments, lost>>

(* live-procurement.ts pays from the same wallet while the substrate is    *)
(* idle, under the nonce after the commitment's, and then tells it.        *)
PayBeside ==
  LET n == IF nextNonce = 0 THEN ChainNext ELSE nextNonce IN
  /\ payments < MaxPayments /\ anchorTail = <<>> /\ Admissible(n)
  /\ pool' = Append(pool, [by |-> {}, nonce |-> n, at |-> "pending"])
  /\ nextNonce' = Reserved(n)
  /\ payments' = payments + 1
  /\ UNCHANGED <<anchorTail, asked, write, localWrites, chainFaults, lost>>

WriteStep(w) ==
  BeginWrite(w) \/ Admitted(w) \/ Refused(w) \/ Rebroadcast(w) \/ Receipt(w) \/ GiveUp(w)

SubNext ==
  \/ \E c \in Calls : AskAnchor(c)
  \/ \E w \in Writes : WriteStep(w) \/ AnswerLost(w)
  \/ \E t \in DOMAIN pool : IncludeTx(t) \/ DropTx(t)
  \/ LeaveQueue
  \/ PayBeside

SubStep == LeaveQueue \/ \E w \in Writes : WriteStep(w)
SubFairness == WF_subVars(SubStep)
SubSpec == SubInit /\ [][SubNext]_subVars /\ SubFairness

-----------------------------------------------------------------------------
(* A write that knew its nonce reaches the chain at most once, whatever    *)
(* answers or transactions are lost: substrate.ts rebuilds a dropped       *)
(* transaction "with the SAME nonce".  (The first write of a process has   *)
(* no nonce yet; a lost answer may then include it twice.)                 *)
IncludedOnce ==
  \A w \in Writes : write[w].known # 0 =>
    Cardinality({t \in Included : w \in pool[t].by}) <= 1

(* When every write asked for has its receipt and no payment is lost or    *)
(* under way, the reservation is exactly the chain's next nonce: no gap    *)
(* that would hold back every later write.                                 *)
NoNonceGap ==
  (/\ \A w \in Writes : w[1] \in asked => write[w].at = "confirmed"
   /\ \A t \in DOMAIN pool : pool[t].by = {} => pool[t].at = "included")
  => nextNonce \in {0, ChainNext}

(* The reservation falls behind the chain only after the answer to an      *)
(* admitted broadcast was lost.  (Then it stays behind: the stale nonce is *)
(* refused on every retry and by every later write of this process.)       *)
StaleOnlyIfLost == nextNonce # 0 /\ nextNonce < ChainNext => lost

(* The writes of a batch take consecutive nonces: neither another call nor *)
(* a rebroadcast outside the queue comes between them.                     *)
BatchIsContiguous ==
  \A c \in Calls : Kind[c] = "batch" =>
    \A k \in 2..Len(Entries[c]) : write[<<c, k>>].tx # 0 =>
      write[<<c, k>>].nonce = write[<<c, k - 1>>].nonce + 1

NonceDiscipline == IncludedOnce /\ NoNonceGap /\ StaleOnlyIfLost /\ BatchIsContiguous

(* read never answers an older value than the newest receipt this view     *)
(* handed out for the slot (slots written again only by anchor, which      *)
(* holds the queue until inclusion).                                       *)
ReadsAreFresh ==
  \A w \in Writes : write[w].at = "confirmed" =>
    \E v \in Writes : /\ EntryOf(v).slot = EntryOf(w).slot
                      /\ localWrites[EntryOf(v).slot] = EntryOf(v).value
                      /\ write[v].at = "confirmed"
                      /\ write[v].nonce >= write[w].nonce

(* The queue drains: nothing the node does blocks the wallet's other       *)
(* writes for ever.                                                        *)
QueueDrains == anchorTail # <<>> ~> anchorTail = <<>>
=============================================================================
