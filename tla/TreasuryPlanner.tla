--------------------------- MODULE TreasuryPlanner ---------------------------
(***************************************************************************)
(* The treasury planner: payroll in roster order, then greedy rebalancing  *)
(* from the largest surplus to the largest deficit.  plan() is a pure,     *)
(* synchronous function; a step of this module is an iteration of one of   *)
(* its loops.  Percentages are integers, so a balance is compared with its *)
(* target on hundredfold values.                                           *)
(***************************************************************************)
EXTENDS TreasuryGate

CONSTANTS
  ChainOf,     \* ChainOf[r]: the chain of reference r
  TargetPct,   \* TargetPct[a]: the share account a should hold, in percent
  Payroll,     \* the roster: a sequence of [to, amount]
  MinMove,     \* smaller rebalancing moves are dust
  MaxMoves,    \* rounds of rebalancing (100 in the code)
  Balances     \* the snapshots the planner may be given

ASSUME PlannerAssumption ==
  /\ TargetPct \in [Accounts -> Nat]
  /\ Payroll \in Seq([to : Refs, amount : Int])
  /\ MinMove \in Nat \ {0} /\ MaxMoves \in Nat
  /\ Balances \subseteq [Accounts -> Nat]

ASSUME SharesAssumption == SumOver(TargetPct, Accounts) = 100

VARIABLES
  phase,       \* "payroll", "targets", "rebalance" or "planned"
  snapshot,    \* the balances the plan is made from
  working,     \* working[a]: what the plan leaves in account a
  intents, shortfalls, runTotal,
  entry,       \* the next entry of the roster
  summed,      \* accounts whose balance is in the total
  total,       \* what payroll leaves to share out
  moves,       \* rounds of rebalancing so far
  debited,     \* history: amounts and fee buffers taken from an account
  credited     \* history: amounts moved into an account

planVars == <<phase, snapshot, working, intents, shortfalls, runTotal, entry, summed, total, moves,
          debited, credited>>

PlanInit ==
  /\ phase = "payroll" /\ snapshot \in Balances /\ working = snapshot
  /\ intents = <<>> /\ shortfalls = {} /\ runTotal = 0 /\ entry = 1
  /\ summed = 0 /\ total = 0 /\ moves = 0
  /\ debited = [a \in Accounts |-> 0] /\ credited = [a \in Accounts |-> 0]

(* Mutant: the fee of the transfer itself is not reserved.                *)
HeadroomWithoutFee(a) == working[a] - MinBalance[a]

Headroom(a) == working[a] - MinBalance[a] - FeeBuffer

Push(kind, from, to, amount) ==
  /\ intents' = Append(intents, MakeIntent(Len(intents) + 1, kind, from, to, amount))
  /\ debited' = [debited EXCEPT ![from] = @ + amount + FeeBuffer]
  /\ runTotal' = runTotal + amount

-----------------------------------------------------------------------------
(* Payroll.                                                                *)

Funders(e) == {a \in Accounts : ChainOf[a] = ChainOf[e.to] /\ Headroom(a) >= e.amount}

Payable(e) ==
  /\ e.amount > 0 /\ e.amount <= PerTxCap
  /\ runTotal + e.amount <= PerRunCap
  /\ Funders(e) # {}

PayEntry ==
  /\ phase = "payroll" /\ entry <= Len(Payroll) /\ Payable(Payroll[entry])
  /\ LET e == Payroll[entry]
     IN \E a \in Funders(e) :
          /\ \A b \in Funders(e) : a <= b
          /\ Push("payroll", a, e.to, e.amount)
          /\ working' = [working EXCEPT ![a] = @ - (e.amount + FeeBuffer)]
  /\ entry' = entry + 1
  /\ UNCHANGED <<phase, snapshot, shortfalls, summed, total, moves, credited>>

Shortfall ==
  /\ phase = "payroll" /\ entry <= Len(Payroll) /\ ~Payable(Payroll[entry])
  /\ shortfalls' = shortfalls \cup {entry}
  /\ entry' = entry + 1
  /\ UNCHANGED <<phase, snapshot, working, intents, runTotal, summed, total, moves, debited,
                 credited>>

(* The targets are shares of what payroll leaves in all the accounts.      *)
EndPayroll ==
  /\ phase = "payroll" /\ entry > Len(Payroll)
  /\ phase' = "targets"
  /\ UNCHANGED <<snapshot, working, intents, shortfalls, runTotal, entry, summed, total, moves,
                 debited, credited>>

SetTargets ==
  /\ phase = "targets"
  /\ total' = total + working[summed + 1]
  /\ summed' = summed + 1
  /\ phase' = IF summed + 1 = N THEN "rebalance" ELSE "targets"
  /\ UNCHANGED <<snapshot, working, intents, shortfalls, runTotal, entry, moves, debited,
                 credited>>

-----------------------------------------------------------------------------
(* Rebalancing.                                                            *)

Target(a) == TargetPct[a] * total     \* hundredfold
Delta(a) == 100 * working[a] - Target(a)

(* The stable sort puts the largest surplus first and keeps the policy's   *)
(* order between equals: the receiver is its last account, the donor its   *)
(* first that has something to give.                                       *)
Before(a, b) == Delta(a) > Delta(b) \/ (Delta(a) = Delta(b) /\ a < b)

IsReceiver(r) == \A a \in Accounts \ {r} : Before(a, r)

CanGive(a) == Delta(a) >= 100 * MinMove /\ Headroom(a) >= MinMove

IsDonor(d, r) ==
  /\ d # r /\ CanGive(d)
  /\ \A a \in Accounts \ {d, r} : CanGive(a) => Before(d, a)

Smallest(S) == CHOOSE m \in S : \A x \in S : m <= x

(* Mutant: the whole surplus moves, whatever the receiver lacks.          *)
MoveSurplus(d, r) ==
  Smallest({Delta(d) \div 100, Headroom(d), PerTxCap, PerRunCap - runTotal})

Move(d, r) ==
  Smallest({Delta(d) \div 100, (-Delta(r)) \div 100, Headroom(d), PerTxCap,
            PerRunCap - runTotal})

Rebalance ==
  /\ phase = "rebalance" /\ moves < MaxMoves
  /\ \E d, r \in Accounts :
       /\ IsReceiver(r) /\ IsDonor(d, r) /\ Move(d, r) >= MinMove
       /\ Push("rebalance", d, r, Move(d, r))
       /\ working' = [working EXCEPT ![d] = @ - (Move(d, r) + FeeBuffer),
                                     ![r] = @ + Move(d, r)]
       /\ credited' = [credited EXCEPT ![r] = @ + Move(d, r)]
  /\ moves' = moves + 1
  /\ UNCHANGED <<phase, snapshot, shortfalls, entry, summed, total>>

Finish ==
  /\ phase = "rebalance"
  /\ \/ moves = MaxMoves
     \/ \A d, r \in Accounts : ~(IsReceiver(r) /\ IsDonor(d, r) /\ Move(d, r) >= MinMove)
  /\ phase' = "planned"
  /\ UNCHANGED <<snapshot, working, intents, shortfalls, runTotal, entry, summed, total, moves,
                 debited, credited>>

PlanNext == PayEntry \/ Shortfall \/ EndPayroll \/ SetTargets \/ Rebalance \/ Finish

PlanSpec == PlanInit /\ [][PlanNext]_planVars

Plan == [sealed |-> TRUE,
         body |-> [policyId |-> PolicyId, balances |-> snapshot, intents |-> intents]]

-----------------------------------------------------------------------------
(* The planner's state is what plan() keeps: no account is planned into    *)
(* debt and the plan's total stays within the per-run cap.                 *)
PlanTypeOK ==
  /\ phase \in {"payroll", "targets", "rebalance", "planned"}
  /\ snapshot \in [Accounts -> Nat] /\ working \in [Accounts -> Nat]
  /\ intents \in Seq(Intent)
  /\ shortfalls \subseteq 1..Len(Payroll) /\ runTotal \in 0..PerRunCap
  /\ entry \in 1..Len(Payroll) + 1 /\ total \in Nat
  /\ summed \in 0..N /\ (phase \in {"payroll", "targets"} => summed < N)
  /\ moves \in 0..MaxMoves
  /\ debited \in [Accounts -> Nat] /\ credited \in [Accounts -> Nat]

(* A plan the planner makes for a payroll of allowlisted recipients passes *)
(* the gate, which derives every check again: caps, recipients and the     *)
(* simulated floors of approval.ts agree with the ones of planner.ts.      *)
PlanPassesGate ==
  phase = "planned" /\ (\A i \in 1..Len(Payroll) : Payroll[i].to \in Allowlist)
    => Approvable(Plan)

(* An account the plan debits can pay all of it, fee buffers included,     *)
(* from its own snapshot without going below its floor: no intent of the   *)
(* planner counts on an earlier one having arrived, so a failed transfer   *)
(* that the executor passes over cannot break a floor.                     *)
SelfFunded ==
  \A a \in Accounts : debited[a] > 0 => snapshot[a] - debited[a] >= MinBalance[a]

(* Rebalancing never lifts an account above its target, so an account that *)
(* has received never becomes a donor.                                     *)
NoOvershoot ==
  \A a \in Accounts : credited[a] > 0 => 100 * working[a] <= Target(a)

(* What a plan promises: it passes the gate, and rebalancing stops at the  *)
(* targets.                                                                *)
PlanIsSound == PlanPassesGate /\ NoOvershoot
=============================================================================
