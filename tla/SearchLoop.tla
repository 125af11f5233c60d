----------------------------- MODULE SearchLoop -----------------------------
(***************************************************************************)
(* A search: SearchLoopRunner.run, UnifiedActionExecutor.execute           *)
(* (src/discoveryos/runtime/search_loop.py), the routing of structural     *)
(* actions through EvoXStrategyStateMachine (harness/evox_strategy.py,     *)
(* strategies.py) and AnytimeTraceRecorder.record.  One loop runs at a     *)
(* time.  It is killed at any step, or an exception ends it, and it is run *)
(* again over the same ledger.  What a redone step stores again must equal *)
(* what the ledger already has, or the ledger raises.                      *)
(***************************************************************************)
EXTENDS SearchProjection

CONSTANTS
  Attempts,       \* max_novelty_attempts
  Resample,       \* per generative action: may a rejected proposal be replaced
  Seeds,          \* seeds are 1..Seeds
  FirstEvidence,  \* evidence of the control and the root before the search
  Values,         \* values the metric may take; 0 is added for none
  Costs,          \* what a generation may cost
  Deltas,         \* semantic deltas a proposal may have
  EvaluationCost, \* what an evaluation costs
  ParentMode,     \* EvoX strategy space: "current" or "incumbent" per strategy
  MaxStarts       \* bound: times the loop is run

ASSUME LoopAssumption ==
  /\ Resample \in [Generative -> BOOLEAN]
  /\ Attempts \in Nat \ {0} /\ Seeds \in Nat \ {0}
  /\ FirstEvidence \in Seq([cand : {0, 1}, rung : 1..Rungs, seed : 1..Seeds, value : Nat])
  /\ Values \subseteq Nat \ {0} /\ Costs \subseteq Nat
  /\ Deltas \subseteq Nat /\ Deltas # {}
  /\ EvaluationCost \in Nat
  /\ ParentMode \in Seq({"current", "incumbent"}) /\ Len(ParentMode) >= 2
  /\ MaxStarts \in Nat

VARIABLES
  policy,       \* the frozen SearchRunSpec: are parents drawn by a parent policy
  parents,      \* table parent_selection_receipts: steps that have one
  deployments,  \* graph: [step, strategy, fallback]
  settlements,  \* graph: [step, active, fallback], step that of the deployment
  traces,       \* records search/<run_id>/anytime: steps that have one
  pc,           \* where the loop is
  before,       \* the state of the step, as projected when it began
  plan,         \* the decision it executes
  attempt,      \* generation attempts made
  result,       \* the candidate it evaluates, its evidence, or a failure
  starts,       \* history: times the loop was run
  cut           \* history: steps in which it was ended

durable ==
  <<policy, actions, evidence, gens, parents, deployments, settlements, traces>>

vars == <<policy, actions, evidence, gens, parents, deployments, settlements, traces,
          pc, before, plan, attempt, result, starts, cut>>

Idle == {"down", "raised", "stopped"}

NoState == [step |-> None]

NoPlan ==
  [act |-> "stop", cand |-> 0, drawn |-> 0, rung |-> 0, strategy |-> 0, fallback |-> 0]

NoResult == [cand |-> None, receipt |-> 0, failed |-> FALSE]

\* The candidate of an attempt: request_nonce is run, step and attempt.
Child(n) == Root + Step * Attempts + n

\* The generations of this action.
Rows == {g \in gens : \E n \in 1..attempt : g.cand = Child(n)}

Row == CHOOSE g \in gens : g.cand = Child(attempt)

Init ==
  /\ policy \in BOOLEAN
  /\ actions = <<>> /\ evidence = FirstEvidence /\ gens = {}
  /\ parents = {} /\ deployments = <<>> /\ settlements = <<>> /\ traces = {}
  /\ pc = "down" /\ before = NoState /\ plan = NoPlan /\ attempt = 0 /\ result = NoResult
  /\ starts = 0 /\ cut = {}

Start ==
  /\ pc \in Idle
  /\ starts < MaxStarts
  /\ pc' = "building" /\ starts' = starts + 1
  /\ UNCHANGED <<durable, before, plan, attempt, result, cut>>

\* The loop is over and its locals are gone.
Leave(where) ==
  /\ pc' = where
  /\ before' = NoState /\ plan' = NoPlan /\ attempt' = 0 /\ result' = NoResult
  /\ cut' = IF pc \in {"building", "deciding"} THEN cut ELSE cut \cup {before.step}
  /\ UNCHANGED <<durable, starts>>

\* The process dies; a provider, an evaluation or a write raises.
Crash == pc \notin Idle /\ Leave("down")

------------------------------------------------------------------------------
(* Planning: build, decide, and for a structural action EvoX's plan *)

\* Mutant: a deployment blocks the next one only until it has been used.
PendingNever == {}

\* _pending_deployment
Pending ==
  {i \in DOMAIN deployments :
     \A k \in DOMAIN settlements : settlements[k].step # deployments[i].step}

\* The active strategy and its fallback: of the latest settlement, if any.
Strategy ==
  IF settlements = <<>> THEN [active |-> 2, fallback |-> 1]
  ELSE settlements[Len(settlements)]

\* The parent the strategy selects; it must be the active candidate.
StrategyParent(drawn) ==
  IF ParentMode[Strategy.active] = "incumbent" THEN before.incumbent ELSE drawn

PlanRaises(d) ==
  d.act = "structural" /\ (Pending # {} \/ StrategyParent(d.cand) # before.current)

\* Parents: the policy draws any feasible candidate by weight.
Drawn ==
  IF policy THEN {c \in DOMAIN before.cands : before.cands[c].feasible}
  ELSE {before.current}

BuildRaises == Overspent \/ Ranked = {}

Build ==
  /\ pc = "building" /\ ~BuildRaises
  /\ pc' = "deciding" /\ before' = Projection
  /\ UNCHANGED <<durable, plan, attempt, result, starts, cut>>

BuildFails ==
  /\ pc = "building" /\ BuildRaises
  /\ Leave("raised")

PlanAction ==
  /\ pc = "deciding"
  /\ \E p \in Drawn :
       LET d == Decide(before, p)
       IN /\ d.act # "stop" /\ ~PlanRaises(d)
          /\ plan' = [act |-> d.act, rung |-> d.rung, drawn |-> d.cand,
                      cand |-> IF d.act = "structural" THEN StrategyParent(d.cand) ELSE d.cand,
                      strategy |-> Strategy.active, fallback |-> Strategy.fallback]
  /\ pc' = "binding"
  /\ UNCHANGED <<durable, before, attempt, result, starts, cut>>

PlanFails ==
  /\ pc = "deciding"
  /\ \E p \in Drawn : PlanRaises(Decide(before, p))
  /\ Leave("raised")

\* A generative action that was drawn a parent has a receipt per step.  One
\* that an earlier run of the loop stored for the step counts as exposure of
\* its parent, so the receipts differ and the ledger refuses the second.
StopLoop ==
  /\ pc = "deciding"
  /\ \E p \in Drawn :
       LET d == Decide(before, p)
           receipt == policy /\ d.rejected \in Generative
       IN /\ d.act = "stop"
          /\ parents' = IF receipt THEN parents \cup {before.step} ELSE parents
          /\ pc' = IF receipt /\ before.step \in parents THEN "raised" ELSE "stopped"
  /\ before' = NoState
  /\ UNCHANGED <<policy, actions, evidence, gens, deployments, settlements, traces,
                 plan, attempt, result, starts, cut>>

------------------------------------------------------------------------------
(* Executing *)

AfterBinding ==
  CASE plan.act = "structural" -> "deploying"
    [] plan.act = "local" -> "generating"
    [] OTHER -> "evaluating"

\* _copy_decision drops the receipt of a parent that EvoX replaced.
HasReceipt == policy /\ plan.act \in Generative /\ plan.cand = plan.drawn

\* add_parent_selection_receipt
Bind ==
  /\ pc = "binding"
  /\ ~(HasReceipt /\ before.step \in parents)
  /\ parents' = IF HasReceipt THEN parents \cup {before.step} ELSE parents
  /\ pc' = AfterBinding
  /\ result' = IF AfterBinding = "evaluating" THEN [result EXCEPT !.cand = plan.cand] ELSE result
  /\ UNCHANGED <<policy, actions, evidence, gens, deployments, settlements, traces,
                 before, plan, attempt, starts, cut>>

BindFails ==
  /\ pc = "binding"
  /\ HasReceipt /\ before.step \in parents
  /\ Leave("raised")

Deploy ==
  /\ pc = "deploying"
  /\ deployments' = Append(deployments,
       [step |-> before.step, strategy |-> plan.strategy, fallback |-> plan.fallback])
  /\ pc' = "generating"
  /\ UNCHANGED <<policy, actions, evidence, gens, parents, settlements, traces,
                 before, plan, attempt, result, starts, cut>>

\* Without a candidate to evaluate the action is recorded as a failure.
GiveUp ==
  /\ pc' = "recording"
  /\ result' = [result EXCEPT !.failed = TRUE]

\* git fails on the parent's patches: recorded at no cost.
Unmaterializable ==
  /\ pc = "generating" /\ attempt = 0
  /\ GiveUp
  /\ UNCHANGED <<durable, before, plan, attempt, starts, cut>>

\* basin_escape_brief needs a parent that descends from the root.
BriefRaises == plan.act = "structural" /\ plan.cand = Root

\* propose: a generation is stored once per attempt of a step.
Propose(g) ==
  /\ pc = "generating" /\ ~BriefRaises
  /\ \A h \in gens : h.cand # g.cand
  /\ attempt' = attempt + 1
  /\ gens' = gens \cup {g}
  /\ IF g.ok THEN pc' = "screening" /\ UNCHANGED result ELSE GiveUp
  /\ UNCHANGED <<policy, actions, evidence, parents, deployments, settlements, traces,
                 before, plan, starts, cut>>

\* One that is made again names another request artifact, for its request
\* holds the time it was created at, and the ledger refuses it.
ProposeFails ==
  /\ pc = "generating"
  /\ BriefRaises \/ \E h \in gens : h.cand = Child(attempt + 1)
  /\ Leave("raised")

\* assess, resolve_resampling: a new proposal is evaluated, a duplicate
\* replaced while attempts and reserve last.
Screen ==
  /\ pc = "screening"
  /\ \/ Row.novel /\ pc' = "evaluating" /\ result' = [result EXCEPT !.cand = Row.cand]
     \/ /\ ~Row.novel /\ attempt < Attempts /\ Resample[plan.act]
        /\ pc' = "generating" /\ UNCHANGED result
     \/ ~Row.novel /\ (attempt = Attempts \/ ~Resample[plan.act]) /\ GiveUp
  /\ UNCHANGED <<durable, before, plan, attempt, starts, cut>>

\* git fails on the proposal's patches: no receipt.
Unscreenable ==
  /\ pc = "screening"
  /\ GiveUp
  /\ UNCHANGED <<durable, before, plan, attempt, starts, cut>>

UsedSeeds == {evidence[i].seed : i \in {i \in Evidence(result.cand) : evidence[i].rung = plan.rung}}

\* A promotion keeps the seed of the rung below, others take the next one.
NextSeed ==
  IF plan.act = "promote"
    THEN evidence[Min({i \in Evidence(result.cand) : evidence[i].rung = plan.rung - 1})].seed
    ELSE Min(1..(Seeds + 1) \ UsedSeeds)

\* Evidence that failed, or is valid but not feasible, has no value.
Evaluate(value) ==
  /\ pc = "evaluating"
  /\ NextSeed <= Seeds
  /\ evidence' = Append(evidence,
       [cand |-> result.cand, rung |-> plan.rung, seed |-> NextSeed, value |-> value])
  /\ \E f \in BOOLEAN :
       /\ f => value = 0
       /\ result' = [result EXCEPT !.receipt = Len(evidence) + 1, !.failed = f]
  /\ pc' = "recording"
  /\ UNCHANGED <<policy, actions, gens, parents, deployments, settlements, traces,
                 before, plan, attempt, starts, cut>>

\* frozen replicate seeds are exhausted
EvaluateFails ==
  /\ pc = "evaluating"
  /\ NextSeed > Seeds
  /\ Leave("raised")

\* Mutant: the usage of the last generation only.
UsageOfTheLast ==
  SumFunction([g \in {g \in Rows : g.cand = Child(attempt)} |-> g.cost])
    + (IF result.receipt = 0 THEN 0 ELSE EvaluationCost)

\* _sum_usage over the generations and the evidence of the action.
Usage ==
  SumFunction([g \in Rows |-> g.cost])
    + (IF result.receipt = 0 THEN 0 ELSE EvaluationCost)

\* add_search_action
Record ==
  /\ pc = "recording"
  /\ actions' = Append(actions,
       [act |-> plan.act, source |-> plan.cand, result |-> result.cand,
        receipt |-> result.receipt, used |-> Usage, failed |-> result.failed])
  /\ pc' = IF plan.act = "structural" THEN "settling" ELSE "tracing"
  /\ UNCHANGED <<policy, evidence, gens, parents, deployments, settlements, traces,
                 before, plan, attempt, result, starts, cut>>

\* settle: a failure falls back, an improvement keeps the strategy, anything
\* else moves on to the next one.  It compares the metric of valid evidence,
\* feasible or not.
NextStrategy ==
  LET value    == evidence[result.receipt].value
      rollback == [active |-> plan.fallback, fallback |-> 1]
      retain   == [active |-> plan.strategy, fallback |-> plan.fallback]
      switch   == [active |-> (plan.strategy % Len(ParentMode)) + 1, fallback |-> plan.strategy]
  IN IF result.receipt = 0 \/ result.failed THEN {rollback}
     ELSE IF value = 0 THEN {rollback, retain, switch}
     ELSE IF Scale * value < before.best THEN {retain} ELSE {switch}

SettleStrategy ==
  /\ pc = "settling"
  /\ \E s \in NextStrategy :
       settlements' = Append(settlements,
         [step |-> before.step, active |-> s.active, fallback |-> s.fallback])
  /\ pc' = "tracing"
  /\ UNCHANGED <<policy, actions, evidence, gens, parents, deployments, traces,
                 before, plan, attempt, result, starts, cut>>

Regressed == Best.utility > before.best

\* The state is built again and the step's trace written.
Trace ==
  /\ pc = "tracing"
  /\ ~BuildRaises /\ ~Regressed
  /\ traces' = traces \cup {before.step}
  /\ pc' = "building" /\ before' = NoState /\ plan' = NoPlan /\ attempt' = 0 /\ result' = NoResult
  /\ UNCHANGED <<policy, actions, evidence, gens, parents, deployments, settlements,
                 starts, cut>>

\* It raises on an overspent budget and on an incumbent that became worse.
TraceFails ==
  /\ pc = "tracing"
  /\ BuildRaises \/ Regressed
  /\ Leave("raised")

------------------------------------------------------------------------------

\* What the provider may answer, and the policy say, in the next attempt.
Proposal ==
  {[cand |-> Child(attempt + 1), ok |-> TRUE, cost |-> c, novel |-> n, delta |-> d] :
     c \in Costs, n \in BOOLEAN, d \in Deltas}
  \cup {[cand |-> Child(attempt + 1), ok |-> FALSE, cost |-> c, novel |-> FALSE, delta |-> d] :
          c \in Costs, d \in {Min(Deltas)}}

Work ==
  \/ Build \/ BuildFails \/ PlanAction \/ PlanFails \/ StopLoop
  \/ Bind \/ BindFails \/ Deploy
  \/ Unmaterializable \/ (pc = "generating" /\ \E g \in Proposal : Propose(g)) \/ ProposeFails
  \/ Screen \/ Unscreenable
  \/ (\E v \in Values \cup {0} : Evaluate(v)) \/ EvaluateFails
  \/ Record \/ SettleStrategy \/ Trace \/ TraceFails

Next == Start \/ Crash \/ Work

Spec == Init /\ [][Next]_vars

------------------------------------------------------------------------------
\* However much its actions turn out to cost, a search stops at the one that
\* exceeds its budget: without the last settled step it was within it.
OnlyLastOverspends ==
  \A n \in 1..(Step - 1) : SumFunction([k \in 1..n |-> actions[k].used]) <= Budget

\* A deployment whose settlement was lost stays the only unsettled one, and
\* no structural action is recorded after it, in whatever run of the loop.
LostSettlementStopsEscapes ==
  LET lost == {i \in DOMAIN deployments :
                 \A k \in DOMAIN settlements : settlements[k].step # deployments[i].step}
  IN /\ Cardinality(lost) <= 1
     /\ \A i \in lost, k \in DOMAIN actions :
          actions[k].act = "structural" => k - 1 <= deployments[i].step

\* A settled step is charged for every generation made for it, those whose
\* proposals were rejected included; one that an interruption cut short may
\* leave generations uncharged but never charges for more.
ActionsChargeTheirGenerations ==
  \A k \in DOMAIN actions :
    LET made == {g \in gens : \E n \in 1..Attempts : g.cand = Root + (k - 1) * Attempts + n}
        cost == SumFunction([g \in made |-> g.cost])
                  + (IF actions[k].receipt = 0 THEN 0 ELSE EvaluationCost)
    IN /\ actions[k].used <= cost
       /\ k - 1 \notin cut => actions[k].used = cost

\* Whatever was redone or left behind by a crash, the stored history is one
\* that _facts accepts: a step's source was in scope, an evaluation was of
\* the current candidate, and evidence is of the step's result.
HistoryIsReadable ==
  \A k \in DOMAIN actions :
    LET earlier == {j \in 1..(k - 1) : Generated(j)}
        scope  == {Root} \cup {actions[j].result : j \in earlier}
        last   == IF earlier = {} THEN Root ELSE actions[Max(earlier)].result
    IN /\ actions[k].source \in scope
       /\ actions[k].act \notin Generative => actions[k].result = last
       /\ actions[k].receipt # 0 => evidence[actions[k].receipt].cand = actions[k].result

\* The best utility the projection knows becomes worse only by evaluating
\* the incumbent again, never because another candidate or step came in.
OnlyReevaluationRegresses ==
  [][(Ranked # {} /\ Ranked' # {} /\ Best'.utility > Best.utility)
       => /\ Len(evidence') > Len(evidence)
          /\ evidence'[Len(evidence')].cand = Best.cand]_vars
==============================================================================
