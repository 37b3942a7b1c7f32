---------------------------- MODULE TreasuryGate ----------------------------
(***************************************************************************)
(* The treasury agent's policy and its approval gate (treasury-ops).  The  *)
(* planner proposes transfers (TreasuryPlanner), the gate re-derives every *)
(* check from the policy and signs, and the executor walks a signed plan   *)
(* through the chain ports (TreasuryExecutor).                             *)
(*                                                                         *)
(* A reference is an address on a chain; account a of the policy is        *)
(* reference a.  Amounts are integer base units.  The hash of a plan is    *)
(* its body, and "sealed" says that the planHash a plan carries is the one *)
(* of its body.                                                            *)
(***************************************************************************)
EXTENDS Integers, Sequences, FiniteSetsExt

CONSTANTS
  N,            \* the policy's accounts are 1..N, in its order
  Payees,       \* references outside the treasury
  MinBalance,   \* MinBalance[a]: the floor of account a
  Allowlist,    \* references payroll may pay
  PolicyId,
  PerTxCap, PerRunCap, FeeBuffer

Accounts == 1..N
Refs == Accounts \cup Payees

ASSUME PolicyAssumption ==
  /\ N \in Nat \ {0} /\ Accounts \cap Payees = {}
  /\ MinBalance \in [Accounts -> Nat] /\ Allowlist \subseteq Refs
  /\ PerTxCap \in Nat \ {0} /\ PerRunCap \in Nat \ {0} /\ FeeBuffer \in Nat

(* What an intent's id is the hash of, besides the run's id: the source    *)
(* account is not part of it.                                              *)
IntentId(i, kind, to, amount) == <<i, kind, to, amount>>

Kinds == {"payroll", "rebalance"}
Ids == Nat \X Kinds \X Refs \X Nat
Intent == [id : Ids, kind : Kinds, from : Refs, to : Refs, amount : Nat]

MakeIntent(i, kind, from, to, amount) ==
  [id |-> IntentId(i, kind, to, amount), kind |-> kind, from |-> from, to |-> to,
   amount |-> amount]

Positions(body) == 1..Len(body.intents)

(* The sum of v[x] over the elements x of the finite set S.                *)
SumOver(v, S) == MapThenSumSet(LAMBDA x : v[x], S)

(* What an intent moves, and what it takes from the account it debits.     *)
Amounts(body) == [i \in Positions(body) |-> body.intents[i].amount]
Costs(body) == [i \in Positions(body) |-> body.intents[i].amount + FeeBuffer]

(* What the first n intents take from account a, and what they bring it.   *)
Debits(body, a, n) == SumOver(Costs(body), {i \in 1..n : body.intents[i].from = a})
Credits(body, a, n) == SumOver(Amounts(body), {i \in 1..n : body.intents[i].to = a})

Total(body) == SumOver(Amounts(body), Positions(body))

RecipientAllowed(x) == x.to \in IF x.kind = "payroll" THEN Allowlist ELSE Accounts

(* The gate's simulation: what intent i leaves in the account it debits.   *)
(* Earlier credits count, the intent's own does not yet.                   *)
KeepsFloor(body, i) ==
  LET a == body.intents[i].from
  IN body.balances[a] - Debits(body, a, i) + Credits(body, a, i - 1) >= MinBalance[a]

(* Mutant: an intent's id is taken as it comes.                            *)
IntentOkAnyId(body, i) ==
  LET x == body.intents[i]
  IN /\ x.amount > 0 /\ x.amount <= PerTxCap
     /\ RecipientAllowed(x)
     /\ x.from \in Accounts
     /\ KeepsFloor(body, i)

IntentOk(body, i) ==
  LET x == body.intents[i]
  IN /\ x.id = IntentId(i, x.kind, x.to, x.amount)
     /\ x.amount > 0 /\ x.amount <= PerTxCap
     /\ RecipientAllowed(x)
     /\ x.from \in Accounts
     /\ KeepsFloor(body, i)

Approvable(p) ==
  /\ p.body.policyId = PolicyId
  /\ p.sealed
  /\ Accounts \subseteq DOMAIN p.body.balances
  /\ \A i \in Positions(p.body) : IntentOk(p.body, i)
  /\ Total(p.body) <= PerRunCap
=============================================================================
