---------------------------- MODULE Subcontract ----------------------------
(* The general contractor of gc.ts: it sources every component of a job in *)
(* a negotiation of its own, the contractor buying, and then sells the     *)
(* bundle in one more. All of them run on the engine of Negotiation.       *)
EXTENDS Negotiation

CONSTANT GcJobs   \* [budget, deadline, parts: a sequence of [scan, tier]]

ASSUME GcJobsAssumption ==
    GcJobs \subseteq [budget : Nat, deadline : Deadlines,
                      parts : Seq([scan : [klocTenths : Nat, numTools : Nat], tier : Tiers])]

VARIABLE plan     \* the job, the phase, the sub-negotiations' results, the award

NoJob == [budget |-> 0, deadline |-> "standard", parts |-> <<>>]
Plan(phase, job, subs, result, price) ==
    [phase |-> phase, job |-> job, subs |-> subs, outcome |-> result, price |-> price]
GcOff == Plan("off", NoJob, <<>>, "none", 0)
GcInit == \E j \in GcJobs : plan = Plan("sourcing", j, <<>>, "none", 0)

\* The sum of the first n of a list of amounts.
SumOf(x, n) == LET sum[k \in 0..n] == IF k = 0 THEN 0 ELSE sum[k - 1] + x[k] IN sum[n]

Asks(job) ==
    [i \in 1..Len(job.parts) |-> askFor(job.parts[i].scan, job.parts[i].tier, job.deadline)]

\* Three quarters of the buyer's budget, by the weight of each ask.
allocation(job, i) ==
    LET total == SumOf(Asks(job), Len(job.parts))
    IN  RoundDiv(75 * job.budget * Asks(job)[i], 100 * (IF total = 0 THEN 1 ELSE total))

\* The desk's own seller against the contractor as buyer. The desk is told
\* the only deadline on offer and nothing of where to anchor its quote.
SubDeal(job, i) ==
    LET part == job.parts[i]
    IN  [tiers |-> Tiers, deadlines |-> {job.deadline},
         floor |-> [t \in Tiers |-> [dl \in Deadlines |-> floorFor(part.scan, t, dl)]],
         ask |-> [t \in Tiers |-> [dl \in Deadlines |-> askFor(part.scan, t, dl)]],
         budget |-> allocation(job, i), acceptable |-> {part.tier}, tier |-> part.tier,
         deadline |-> job.deadline, maxTurns |-> 6, seller |-> "scripted", buyer |-> "scripted"]

bundleCost == SumOf([i \in 1..Len(plan.subs) |-> plan.subs[i].terms.price], Len(plan.subs))

\* Cost and a fifth.
bundleFloor == RoundDiv(bundleCost * 120, 100)

BundleDeal ==
    LET flat == [t \in Tiers |-> [dl \in Deadlines |-> bundleFloor]]
    IN  [tiers |-> {"deep"}, deadlines |-> {plan.job.deadline}, floor |-> flat, ask |-> flat,
         budget |-> plan.job.budget, acceptable |-> {"deep"}, tier |-> "deep",
         deadline |-> plan.job.deadline, maxTurns |-> 6, seller |-> "bundle", buyer |-> "scripted"]

SourcePart ==
    /\ plan.phase = "sourcing" /\ Len(plan.subs) < Len(plan.job.parts)
    /\ Begin(SubDeal(plan.job, Len(plan.subs) + 1))
    /\ plan' = Plan("negotiating", plan.job, plan.subs, "none", 0)

PartAnswered ==
    /\ plan.phase = "negotiating" /\ outcome # Open
    /\ plan' = Plan("sourcing", plan.job, Append(plan.subs, outcome), "none", 0)
    /\ UNCHANGED negVars

\* Every component has been tried, also after one could not be had.
AssembleBundle ==
    /\ plan.phase = "sourcing" /\ Len(plan.subs) = Len(plan.job.parts)
    /\ IF \E i \in 1..Len(plan.subs) : plan.subs[i].result # "agreed"
       THEN plan' = Plan("done", plan.job, plan.subs, "no-source", 0) /\ UNCHANGED negVars
       ELSE plan' = Plan("selling", plan.job, plan.subs, "none", 0) /\ Begin(BundleDeal)

BundleAnswered ==
    /\ plan.phase = "selling" /\ outcome # Open
    /\ plan' = Plan("done", plan.job, plan.subs,
                    IF outcome.result = "agreed" THEN "awarded" ELSE "no-deal", outcome.terms.price)
    /\ UNCHANGED negVars

GcNext == SourcePart \/ PartAnswered \/ AssembleBundle \/ BundleAnswered

-----------------------------------------------------------------------------
(* Properties *)

\* An award covers what the specialists were promised and the margin, costs
\* the buyer no more than its budget, and no promise to a specialist is below
\* that specialist's own floor (gc.ts:11, the floor is the outcome of the
\* inner negotiations).
AwardCoversItsParts ==
    plan.outcome = "awarded" =>
        /\ 100 * plan.price >= 120 * bundleCost - 50 /\ plan.price <= plan.job.budget
        /\ \A i \in 1..Len(plan.subs) :
              plan.subs[i].terms.price >= floorFor(plan.job.parts[i].scan, plan.job.parts[i].tier, plan.job.deadline)

\* Sourcing stays within its three quarters of the budget, to the cent per
\* component that rounding can add (gc.ts:185).
SourcingBudget == 100 * bundleCost <= 75 * plan.job.budget + 50 * Len(plan.job.parts)

\* A component whose allocation reaches its floor is sourced: the contractor
\* gives up only where a specialist really is out of reach.
SourcedWhenAffordable(dl) ==
    plan.job.deadline = dl /\ plan.outcome = "no-source" =>
        \E i \in 1..Len(plan.job.parts) :
            allocation(plan.job, i) < floorFor(plan.job.parts[i].scan, plan.job.parts[i].tier, dl)
StandardIsSourced == SourcedWhenAffordable("standard")

\* The same of a job with a rush deadline: "The bundle deadline - flows to
\* every sub-negotiation (rush lifts sub floors)" (gc.ts:65).
RushIsSourced == SourcedWhenAffordable("rush")
=============================================================================
