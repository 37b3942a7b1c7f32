----------------------------- MODULE MCTreasury -----------------------------
(***************************************************************************)
(* The treasury on small instances: three accounts on two chains.  Either  *)
(* the planner makes a plan from one of many snapshots, or the executor is *)
(* handed plans by several hands that share a run's journal.               *)
(***************************************************************************)
EXTENDS TreasuryPlanner, TreasuryExecutor

CONSTANTS P1, P2, Q, Gate, Rogue

MCPayees == {P1, P2, Q}
MCMinBalance == <<3, 0, 1>>
MCAllowlist == {P1, P2, 3}

\* Planner: a roster of five entries and every snapshot over a few balances.
MCTargetPct == <<50, 30, 20>>
MCChainOf == [r \in Refs |-> IF r \in {1, 3, P1} THEN "c1" ELSE "c2"]
MCPayroll == <<[to |-> P1, amount |-> 6], [to |-> P1, amount |-> 4], [to |-> P2, amount |-> 3],
               [to |-> 3, amount |-> 2], [to |-> P2, amount |-> 0]>>
MCBalances == [Accounts -> 0..14 \cup {20, 30}]

\* Executor: what the planner would make, a variant with another second intent,
\* and plans the gate refuses: a strange payee, a plan hash that is not the
\* body's, an id used twice, a floor that only the fees break.
MCOpening == [r \in Refs |-> IF r \in Accounts THEN <<12, 4, 1>>[r] ELSE 0]
Body_(listed) == [policyId |-> "treasury", balances |-> <<12, 4, 1>>, intents |-> listed]
Sealed(listed) == [sealed |-> TRUE, body |-> Body_(listed)]
PayFirst == MakeIntent(1, "payroll", 1, P1, 2)
Planned == Sealed(<<PayFirst, MakeIntent(2, "rebalance", 1, 2, 3)>>)
Replanned == Sealed(<<PayFirst, MakeIntent(2, "rebalance", 1, 2, 2)>>)
Strange == Sealed(<<PayFirst, MakeIntent(2, "payroll", 1, Q, 2)>>)
Edited == [Planned EXCEPT !.sealed = FALSE]
SameId == Sealed(<<PayFirst, PayFirst>>)
Tight == Sealed(<<MakeIntent(1, "payroll", 1, P1, 5), MakeIntent(2, "payroll", 1, P1, 4)>>)
MCPlans == {Planned, Replanned, Strange, Edited, SameId, Tight}

-----------------------------------------------------------------------------
RestPlanner ==
  /\ phase = "planned" /\ snapshot = MCMinBalance /\ working = snapshot
  /\ intents = <<>> /\ shortfalls = {} /\ runTotal = 0 /\ entry = 1
  /\ summed = 0 /\ total = 0 /\ moves = MaxMoves
  /\ debited = [a \in Accounts |-> 0] /\ credited = [a \in Accounts |-> 0]

\* The executor has been handed its plans: the planner is at rest.
Executing == phase = "planned" /\ intents = <<>> /\ entry = 1

MCInit == (PlanInit \/ RestPlanner) /\ Init
MCNext == \/ PlanNext /\ UNCHANGED vars
          \/ Executing /\ Next /\ UNCHANGED planVars

\* The operator calls execute again with every plan the gate approves.
ApprovablePlans == {p \in Proposals : Approvable(p)}

MCFairness ==
  /\ WF_vars(Executing /\ Run)
  /\ WF_vars(Executing /\ \E p \in ApprovablePlans : Approve(p))
  /\ \A p \in ApprovablePlans : SF_vars(Executing /\ \E t \in tokens : Execute(p, t))

MCSpec == MCInit /\ [][MCNext]_<<vars, planVars>> /\ MCFairness

(* ResumeCompletes, of the behaviours in which the executor is at work.    *)
PlansComplete == Executing => ResumeCompletes
=============================================================================
