-------------------------- MODULE TreasuryExecutor --------------------------
(***************************************************************************)
(* The treasury executor: it takes a plan with a token of the approval     *)
(* gate and walks its intents through the chain ports, journaling every    *)
(* attempt, so that a later call of execute resumes where one has died.    *)
(*                                                                         *)
(* A step is the code between two awaits.  The plans of this module carry  *)
(* one runId, so they share a journal file.  The chain ports and the       *)
(* process around the executor are the environment: a port may fail, and   *)
(* the process may die, at any await.                                      *)
(***************************************************************************)
EXTENDS TreasuryGate

CONSTANTS
  Proposals,   \* plans that may be put before the gate and the executor
  Opening,     \* Opening[r]: what reference r holds at first
  Fee,         \* what a chain charges for a transfer
  Keys,        \* signing keys
  GateKey,     \* the gate's
  Trusted,     \* trustedApproverKeys
  MaxFaults    \* bound on the failures and crashes explored

Body == [policyId : {p.body.policyId : p \in Proposals}, balances : [Accounts -> Nat],
         intents : Seq(Intent)]

ASSUME ExecutorAssumption ==
  /\ Proposals \subseteq [sealed : BOOLEAN, body : Body] /\ IsFiniteSet(Proposals)
  /\ Opening \in [Refs -> Nat] /\ Fee \in 0..FeeBuffer
  /\ GateKey \in Keys /\ Trusted \subseteq Keys /\ MaxFaults \in Nat

NoPlan == [policyId |-> PolicyId, balances |-> [a \in Accounts |-> 0], intents |-> <<>>]

VARIABLES
  tokens,      \* approval tokens there are: [key, body]
  ledger,      \* ledger[r]: what reference r holds
  journal,     \* the run's journal: set of [id, status]
  torn,        \* a line of the journal is cut short
  step,        \* "idle", or the await the executor is at
  plan,        \* the plan it executes
  pos,         \* the intent it is at
  done,        \* ids the journal called ok when the run began
  status,      \* the status the record of this intent will have
  perIntent,   \* the records of this run, as [id, status]
  results,     \* results returned: [body, perIntent]
  faults,
  paid,        \* history: paid[id] transfers made for id
  exposed,     \* history: ids transferred, and then not recorded as ok
  executed     \* history: plans the executor has begun

executor == <<step, plan, pos, done, status, perIntent>>
vars == <<tokens, ledger, journal, torn, executor, results, faults, paid, exposed, executed>>

AllIds == UNION {{p.body.intents[i].id : i \in Positions(p.body)} : p \in Proposals}

Init ==
  /\ tokens = {} /\ ledger = Opening /\ journal = {} /\ torn = FALSE
  /\ step = "idle" /\ plan = NoPlan /\ pos = 1 /\ done = {} /\ status = "ok"
  /\ perIntent = <<>> /\ results = {} /\ faults = 0
  /\ paid = [id \in AllIds |-> 0] /\ exposed = {} /\ executed = {}

-----------------------------------------------------------------------------
(* Tokens.  The gate signs what it approves; another key may sign anything.*)

Sign(key, p) ==
  /\ tokens' = tokens \cup {[key |-> key, body |-> p.body]}
  /\ UNCHANGED <<ledger, journal, torn, executor, results, faults, paid, exposed, executed>>

Approve(p) == Approvable(p) /\ Sign(GateKey, p)

OtherSigns(key, p) == key # GateKey /\ Sign(key, p)

-----------------------------------------------------------------------------
(* A call of execute().  A plan or token that fails a check is refused     *)
(* before the journal is read, and a torn journal cannot be read.          *)

Accepts(p, t) == p.sealed /\ t.body = p.body /\ t.key \in Trusted

(* Mutant: a journaled attempt counts as done, whatever became of it.      *)
JournaledIds == {x.id : x \in journal}

DoneIds == {x.id : x \in {y \in journal : y.status = "ok"}}

Execute(p, t) ==
  /\ step = "idle" /\ Accepts(p, t) /\ ~torn
  /\ step' = "next" /\ plan' = p.body /\ pos' = 1 /\ done' = DoneIds
  /\ perIntent' = <<>> /\ status' = "ok" /\ executed' = executed \cup {p.body}
  /\ UNCHANGED <<tokens, ledger, journal, torn, results, faults, paid, exposed>>

Intents == plan.intents
Here == Intents[pos]

More == step = "next" /\ pos <= Len(Intents)

(* Mutant: the record of an earlier run is left out of this run's result.  *)
SkipSilently ==
  /\ More /\ Here.id \in done
  /\ pos' = pos + 1
  /\ UNCHANGED <<tokens, ledger, journal, torn, step, plan, done, status, perIntent, results,
                 faults, paid, exposed, executed>>

Skip ==
  /\ More /\ Here.id \in done
  /\ perIntent' = Append(perIntent, [id |-> Here.id, status |-> "ok"])
  /\ pos' = pos + 1
  /\ UNCHANGED <<tokens, ledger, journal, torn, step, plan, done, status, results, faults,
                 paid, exposed, executed>>

ReadBalances ==
  /\ More /\ Here.id \notin done
  /\ step' = "transfer"
  /\ UNCHANGED <<tokens, ledger, journal, torn, plan, pos, done, status, perIntent, results,
                 faults, paid, exposed, executed>>

Funded == ledger[Here.from] >= Here.amount + Fee

Transferred ==
  LET debited == [ledger EXCEPT ![Here.from] = @ - (Here.amount + Fee)]
  IN [debited EXCEPT ![Here.to] = @ + Here.amount]

Transfer ==
  /\ step = "transfer" /\ Funded
  /\ ledger' = Transferred
  /\ paid' = [paid EXCEPT ![Here.id] = @ + 1]
  /\ step' = "confirm"
  /\ UNCHANGED <<tokens, journal, torn, plan, pos, done, status, perIntent, results, faults,
                 exposed, executed>>

(* A transfer that throws without abortsRun is a record of its own.        *)
TransferFails ==
  /\ step = "transfer"
  /\ \/ ~Funded /\ UNCHANGED faults
     \/ faults < MaxFaults /\ faults' = faults + 1
  /\ status' = "failed" /\ step' = "append"
  /\ UNCHANGED <<tokens, ledger, journal, torn, plan, pos, done, perIntent, results, paid,
                 exposed, executed>>

(* The balances after the transfer are read inside the same try.           *)
ConfirmBalances ==
  /\ step = "confirm"
  /\ status' = "ok" /\ step' = "append"
  /\ UNCHANGED <<tokens, ledger, journal, torn, plan, pos, done, perIntent, results, faults,
                 paid, exposed, executed>>

ConfirmFails ==
  /\ step = "confirm" /\ faults < MaxFaults
  /\ faults' = faults + 1
  /\ status' = "failed" /\ step' = "append"
  /\ exposed' = exposed \cup {Here.id}
  /\ UNCHANGED <<tokens, ledger, journal, torn, plan, pos, done, perIntent, results, paid,
                 executed>>

AppendRecord ==
  /\ step = "append"
  /\ journal' = journal \cup {[id |-> Here.id, status |-> status]}
  /\ perIntent' = Append(perIntent, [id |-> Here.id, status |-> status])
  /\ pos' = pos + 1 /\ step' = "next"
  /\ UNCHANGED <<tokens, ledger, torn, plan, done, status, results, faults, paid, exposed,
                 executed>>

Return ==
  /\ step = "next" /\ pos > Len(Intents)
  /\ results' = results \cup {[body |-> plan, perIntent |-> perIntent]}
  /\ step' = "idle"
  /\ UNCHANGED <<tokens, ledger, journal, torn, plan, pos, done, status, perIntent, faults,
                 paid, exposed, executed>>

(* The run ends without a record of its intent: a port or the journal      *)
(* throws outside the try, a transfer throws with abortsRun, or the        *)
(* process dies.  A process that dies in appendFile may leave part of the  *)
(* line behind.                                                            *)
Dies ==
  /\ step # "idle" /\ faults < MaxFaults
  /\ faults' = faults + 1
  /\ step' = "idle"
  /\ torn' \in {FALSE, step = "append"}
  /\ exposed' = IF step = "confirm" \/ (step = "append" /\ status = "ok")
                THEN exposed \cup {Here.id} ELSE exposed
  /\ UNCHANGED <<tokens, ledger, journal, plan, pos, done, status, perIntent, results, paid,
                 executed>>

Run == Skip \/ ReadBalances \/ Transfer \/ TransferFails \/ ConfirmBalances \/ ConfirmFails
       \/ AppendRecord \/ Return

Next ==
  \/ \E p \in Proposals :
       \/ Approve(p)
       \/ \E key \in Keys : OtherSigns(key, p)
       \/ \E t \in tokens : Execute(p, t)
  \/ Run \/ Dies

Spec == Init /\ [][Next]_vars

(* The event loop runs the executor on; the gate answers, and the operator *)
(* calls execute again with every plan after a run that died.              *)
Fairness ==
  /\ WF_vars(Run)
  /\ WF_vars(\E p \in Proposals : Approve(p))
  /\ \A p \in Proposals : SF_vars(\E t \in tokens : Execute(p, t))

FairSpec == Spec /\ Fairness

(* What verifyProof asks of the records of a result: every one is of a     *)
(* planned intent and none is of the same intent as another.               *)
RecordsVerify(r) ==
  /\ \A k \in DOMAIN r.perIntent :
       \E i \in Positions(r.body) : r.body.intents[i].id = r.perIntent[k].id
  /\ \A k, l \in DOMAIN r.perIntent : r.perIntent[k].id = r.perIntent[l].id => k = l

-----------------------------------------------------------------------------
Status == {"ok", "failed"}
Record == [id : AllIds, status : Status]

(* The executor's state keeps its types: the ledger is never overdrawn,    *)
(* and an executor past its refusals stands at an intent of its plan.      *)
TypeOK ==
  /\ tokens \subseteq [key : Keys, body : {p.body : p \in Proposals}]
  /\ ledger \in [Refs -> Nat] /\ journal \subseteq Record /\ torn \in BOOLEAN
  /\ step \in {"idle", "next", "transfer", "confirm", "append"}
  /\ plan \in {p.body : p \in Proposals} \cup IF step = "idle" THEN {NoPlan} ELSE {}
  /\ pos \in 1..Len(plan.intents) + 1
  /\ step \in {"transfer", "confirm", "append"} => pos <= Len(plan.intents)
  /\ done \subseteq AllIds /\ status \in Status /\ perIntent \in Seq(Record)
  /\ results \subseteq [body : {p.body : p \in Proposals}, perIntent : Seq(Record)]
  /\ faults \in 0..MaxFaults /\ paid \in [AllIds -> Nat] /\ exposed \subseteq AllIds
  /\ executed \subseteq {p.body : p \in Proposals}

(* While only the gate's key is trusted, nobody but the policy's accounts  *)
(* and the allowlist ever receives anything, whatever plans and tokens the *)
(* executor is handed.                                                     *)
OnlyAllowed ==
  Trusted \subseteq {GateKey} =>
    \A r \in Refs \ (Accounts \cup Allowlist) : ledger[r] = Opening[r]

(* However often a run dies and is resumed, and whatever plans share its   *)
(* journal, an intent is transferred once, unless a transfer of it was not *)
(* recorded as ok: the process died before the append, or a balance read   *)
(* after the transfer threw.                                               *)
PaidOnceUnlessExposed ==
  Trusted \subseteq {GateKey} => \A id \in AllIds : paid[id] > 1 => id \in exposed

Honest(body) == \A a \in Accounts : body.balances[a] = Opening[a]
Spends(body, a) == Debits(body, a, Len(body.intents))
PaysItself(body) ==
  \A a \in Accounts : Spends(body, a) > 0 => body.balances[a] - Spends(body, a) >= MinBalance[a]

(* The floors hold on the chain after every step of a plan.                *)
FloorsKept(body) == \A a \in Accounts : Spends(body, a) > 0 => ledger[a] >= MinBalance[a]

PaidOut == SumOver([id \in AllIds |-> paid[id] * id[4]], AllIds)

(* Executing an approved plan that was made from the real balances and     *)
(* counts on no incoming transfer keeps every floor and the per-run cap at *)
(* every step, through failed intents, crashes and resumptions.            *)
WithinPolicy ==
  \A p \in Proposals :
    Trusted \subseteq {GateKey} /\ executed = {p.body} /\ exposed = {} /\ Honest(p.body)
      => PaidOut <= PerRunCap /\ (PaysItself(p.body) => FloorsKept(p.body))

(* A result that execute returns verifies, has a record of every intent of *)
(* its plan, in order, and calls none ok that was not transferred, though  *)
(* some of the records are of earlier runs.                                *)
EveryResultVerifies ==
  Trusted \subseteq {GateKey} =>
    \A r \in results :
      /\ RecordsVerify(r)
      /\ Len(r.perIntent) = Len(r.body.intents)
      /\ \A i \in Positions(r.body) :
           /\ r.perIntent[i].id = r.body.intents[i].id
           /\ r.perIntent[i].status = "ok" => paid[r.perIntent[i].id] > 0

(* What an execution promises to the policy and to whoever reads its       *)
(* results.                                                                *)
ExecutionIsSound == OnlyAllowed /\ WithinPolicy /\ EveryResultVerifies

(* Calling execute again finishes the plan: every intent is at last        *)
(* journaled as ok, unless a transfer went unrecorded or a crash cut the   *)
(* journal short.                                                          *)
ResumeCompletes ==
  \A p \in Proposals :
    Approvable(p) /\ Honest(p.body) /\ PaysItself(p.body) =>
      <>(torn \/ exposed # {} \/ \A i \in Positions(p.body) :
                                  [id |-> p.body.intents[i].id, status |-> "ok"] \in journal)
=============================================================================
