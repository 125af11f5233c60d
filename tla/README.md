# DiscoveryOS: a TLA+ verification project

DiscoveryOS runs algorithm-discovery experiments "evidence first": an experiment
reserves budget, is evaluated, is settled, and leaves one create-once receipt on
which every later decision rests. Its correctness is a matter of what survives
crashes, retries and overlapping runs over one workspace (a SQLite ledger and a
directory of create-once files). These modules model that core, TLC checks them on
small instances, and TLAPS proves the main properties for every instance.

Paths below are relative to `src/discoveryos/` of the repository unless they start
with `docs/` or `README`.

## 1. Inventory

| Component | State it keeps | Operations | Interacts with | What is hard |
|---|---|---|---|---|
| Experiment execution (`runtime/scheduler.py`: `ExperimentExecutor`) | none of its own; the locals of each call of `execute` | `execute`, `_record` | ledger, artifacts, vault, compute fabric | crash or failed write between any two of a dozen durable steps; two executors on one experiment |
| Resource reservations (`runtime/ledger.py`) | table `resource_reservations` | `reserve_resources`, `reconcile_resources` | executor, local patch operator | one budget shared by concurrent experiments; late and repeated settlements; limit 0 |
| Evidence ledger, other tables (`runtime/ledger.py`) | experiments, evidence, graph, events, frozen candidates, generations, search runs and actions | `_insert_once` and what is built on it, `freeze_candidate`, `add_harness_run_binding` | everyone | SELECT then INSERT without a transaction; rows and graph written in several transactions |
| Artifact store (`runtime/artifacts.py`) | `objects/` by digest, `records/` by path | `put_bytes`, `write_record`, `get_*` | everyone | exists/O_EXCL/write/unlink are separate steps; torn files |
| Durable provider invocations (`runtime/provider_invocations.py`) | claim and terminal record per request, response objects | `invoke`, `_recover`, `assert_no_orphaned_invocations` | artifact store, a paid provider | at-most-once calls through crashes, racing callers, retries |
| Provider phase of the frozen experiments (`benchmarks/executable_mechanism_contract.py`) | checkpoint per draw | `_execute_implementations`, `_generate_implementation` | invocations, a thread pool | audit before use; one item failing while others run; charging |
| Discovery and certification (`runtime/scheduler.py`, `domains/clearance_demo.py`, `evaluation/gates.py`) | decision and certification records, `frozen_candidates` | `run`, `certify`, `SafeRacing.promote`, `select_winner` | executor, vault | competing, stopped and retried commands; racing must not drop the leader |
| Split vault (`runtime/vault.py`) | none | `authorize`, `read` | frozen candidates | final blind data only for frozen candidates |
| Replay (`evaluation/replay.py`) | none | `replay` | ledger, artifacts | needs the ground of every verdict in the ledger |
| Harness plugins and runtime (`harness/plugins.py`, `context.py`, `runtime.py`) | context layers, activations, closed and ran flags | `boot`, `extend`, `build`, `run`, `close` | plugins, ledger, search loop | an exception at any step; teardown order; authority services |
| Compute fabric (`runtime/scheduler.py`) | permits of three pools and their queues | `run` | executor, ASHA runner | waiting inside the timeout; threads that outlive it |
| Asynchronous successive halving (`operators/asha.py`, `runtime/asha.py`) | results per rung, promoted trials; create-once decision records | `observe`, `run`, replays | executor, compute fabric | order of completions, capped promotions, one mechanical retry, a second start under the same run id |
| Search loop (`runtime/search_loop.py`, `operators/action_controller.py`, `parent_selection.py`) | `search_runs`, `search_actions`, parent receipts, anytime traces | project, decide, execute, settle, trace | ledger, operators, strategies | a crash or an exception between any two durable steps of an action; the run's budget; everything the loop knows is projected from what it stored |
| EvoX strategy (`harness/evox_strategy.py`) | deployments and settlements in the graph | `plan`, `deploy`, `settle` | search loop | a deployment left pending by a crash |
| Local patch generation (`operators/local_patch.py`, `structural_rewrite.py`, `novelty.py`) | `generation_records`, candidates | `propose`, `repair` | ledger, provider | a check before a paid call and a unique index after it; budget; provider failure; the same request again |
| Repository runner, processes (`runtime/repository_runner.py`, `processes.py`) | a checkout on disk, a worktree registered in git, a process | `run` | git, commands | a deadline at any point, killing a process group, descendants that outlive their command, cleanup that fails |
| Executability gate (`runtime/executability_gate.py`) | the power lease | `execute` | host, its caller's block | an exception at any of acquire, probe, block, query, release; the host changing at any moment |
| Contracts and codecs, semantic memory, mechanism intelligence, codex provider, command lines, ADA adaptation, fairness | immutable data, or one insert-once table | validation, pure functions, dispatch | | sequential and deterministic |
| Frozen benchmark protocols (`benchmarks/`) | their own output files | scripts | all of the above | historical one-off runners, about 25,000 lines |

What makes each of the modelled components correct is the list of properties in
section 3; `PROJECT.json` lists the hazards they answer, at their lines.

## 2. Modules

| Module | Models | Uses |
|---|---|---|
| `BudgetAccount` | what a budget promises, without the table: claims are opened, closed, forfeited, and honoured claims never exceed a capped dimension | |
| `ResourceLedger` | `reserve_resources`, `reconcile_resources`; refines `BudgetAccount` | `BudgetAccount` by INSTANCE |
| `ExperimentExecution` | `ExperimentExecutor.execute` and `_record` over the ledger's tables and the receipt files | EXTENDS `ResourceLedger` |
| `ProviderInvocation` | `DurableProviderInvoker.invoke` over the artifact store and a provider | |
| `DrawPhase` | audit, thread pool, draws and checkpoints of a provider phase | EXTENDS `ProviderInvocation` |
| `SafeRacing` | Pareto front, `promote`, `select_winner` as operators | |
| `DiscoveryCertification` | the two demo commands over one workspace | EXTENDS `SafeRacing` |
| `HarnessLifecycle` | boot, rollback, build, run, close of a profile | |
| `SuccessiveHalving` | one rung of `ASHAOperator`: what may be promoted and what is, as operators | |
| `ASHARun` | `ASHARunner.run` on a pool of `ComputeFabric`, over evidence and decision records | EXTENDS `SuccessiveHalving` |
| `ActionController` | `DeterministicActionController.decide` as a function of a projected state | |
| `SearchProjection` | `LedgerBackedSearchStateProjector`: that state, from the stored actions and evidence | EXTENDS `ActionController` |
| `SearchLoop` | loop, executor, EvoX strategy, parent receipts and traces over the ledger | EXTENDS `SearchProjection` |
| `LocalPatchGeneration` | `propose`, `repair`, `_generate` for concurrent callers | EXTENDS `ResourceLedger` |
| `RepositoryRunner` | `IsolatedRepositoryRunner.run` for concurrent callers over one repository | |
| `ExecutabilityGate` | `ExecutabilityGate.execute` and the host's power transitions | |
| `PatchPipeline` | generation, evaluation and repair inside the blocks of a gate | EXTENDS the three above |
| `MC*` | the instances TLC checks | |
| `SumTheorems` | theorems about `SumFunction`: totals over finite sets, for the proofs about budgets and charges | |
| `*Proofs` | theorems of the modules they extend | TLAPS, the library's theorem modules |

### How they correspond to the code

**ResourceLedger.** `reservations[e]` is the row of an experiment: status, actual
usage and, once settled, the `exceeded_dimensions` of the stored reconciliation.
Each of the two functions runs under `BEGIN IMMEDIATE`, so each is one action, with
its admission query (`RefusedDims`) and its overrun test (`OverrunDims`). Exceptions
are the predicates `Refused` and `ReconcileConflict`, used where a caller sees them.
`LedgerAssumption` asks for finitely many experiments: the queries add up a table.

**ExperimentExecution.** `task[w]` is one call of `execute`; `pc` names the next
durable step: lookup of existing evidence, reserve (or store the rejection),
evaluate, reconcile, open the receipt file, write it, insert the evidence row, its
node, its edge, the event. Every transaction and every file system step is an
action, so other workers see the states in between. A record carries the attempt
that made it: two receipts of one experiment with the same verdict and usage still
differ (their times do), but share the receipt id, which does not cover times
(`SameReceiptId`). `Crash` loses the locals only; it also stands for a cancelled
coroutine and for a transaction that fails. `disturbed` is a history variable: the
experiments hit by a crash, a failed write or a refused split.

**ProviderInvocation.** Per request a claim and a terminal record, per response an
object; each may be absent, torn or complete. `calls` counts how often the provider
was entered and `answers` what it said, both history. Callers run `invoke` step by
step; `Die` is a crash. A repeated `invoke` recovers or fails as `_recover` and the
claim check do.

**DrawPhase** adds the process around it: the audit, a pool of workers, checkpoints
with what a draw is charged, and a crash that takes all workers at once. A response
that parses is charged unless the evaluation of its source raises; one that does not
parse is not (`Charge`). A checkpoint
file is created and written in two steps; `saving` is the workers in between, whose
locals no later step of their own may find changed.

**SafeRacing, DiscoveryCertification.** Scores are signed so that less is better.
An experiment here has its one evidence or ends the session: what happens inside is
`ExperimentExecution`. A session is one run of `demo-discovery` or `demo-certify`;
sessions overlap and may stop at any step. Its candidates are what its own
`--candidates` makes of its seed, one of `Pools[s]`: two runs over one seed may race
different pools, and the later one finds the evidence of the earlier. The pool in a
decision is history: the record names no pool. The record files are modelled as the
artifact store writes them.

**HarnessLifecycle.** A service is told apart by who made the object it is bound to.
`uses` and `live` are history: what each plugin was given, and which plugins have
been activated and not disposed of. Any plugin code and any write of an event may
raise. The runtime's user runs the search at most once and only then closes, in a
`finally` clause or not at all, as `benchmarks/p2_v4_scientific.py` and
`p2_factorial_protocol.py` do; `run` itself does not ask whether the session was
closed before.

**SuccessiveHalving, ASHARun.** A rung's results are a sequence in the order of
`observe`; `NextPromotion` is the best feasible result not yet promoted, with the code's
tie-break. `Power` is `eta ** n`, a recursive function so that `Capacity` can be
reasoned about for every number of rungs. `evidence` is in the order of `created_at`, so
a position in it is a receipt. A task waits for a permit, is evaluated, fails
mechanically, or times out, running or queued. A timeout has used more wall time than
was requested, so `execute` records it as `BUDGET_EXHAUSTED`, here `"exhausted"`, which
is not retryable: the trial is observed as it is (docs/DECISIONS.md D-069). `Collect` is
one `asyncio.wait`. The runner sorts what the wait returned by the receipts' times, so
its loop over that list is `batch`, the receipts still to be handled, of which `Handle`
takes the `First` through the body of the loop: retry, observe, observe and promote, or
the `LedgerConflict` of a decision that an earlier start has stored (`Redecided`). An
experiment's identity includes the promotion record that asked for it, so a second start
re-evaluates nothing it finds but may ask for other trials. `Crash` loses the operator,
the tasks and the permits. A decision record is written in one step: a torn one would
end a second start just as a complete one of another run does.

**ActionController, SearchProjection.** Both are pure: the controller reads nothing
but the projected state, the projector nothing but the ledger. Utilities are signed
means at the candidate's highest rung; `PromotedFrom` replays the evidence in scope
through a new ASHA operator, as `_promotion_targets` does on every build.

**SearchLoop.** `pc` names the next durable step of an action: parent receipt,
deployment, each generation attempt, evaluation, action, settlement, trace. `Crash` is
possible at each and stands for a dying process as well as for a provider, an
evaluation or a write that raises; the named `...Fails` actions are the exceptions
the code itself raises. What an interrupted step has stored is found again when the
step is redone: a stored generation cannot be stored again (its request names the
time it was made at), and a second parent receipt for a step is refused. A generation
is stored in one step with what the novelty policy says of it, with exhaustion as
rejection; value 0 stands for evidence no gate accepts, failed or merely infeasible. EvoX
compares the metric of the latter too, so its transition is then left open
(`NextStrategy`). Of a generative action whose parent EvoX has replaced, `_copy_decision`
drops the receipt (`HasReceipt`). The budget has one dimension.
`cut` is history: the steps in which the loop was ended.

**LocalPatchGeneration.** A generation id is the experiment id of its reservation.
A call reads what it reads of the ledger (`Repair`'s guard), reserves, is answered,
settles, adds a candidate and stores the generation, each a step that other callers
interleave with; `Storable` is the primary key and the unique index of one repair per
root. `call` is lost when an exception or a crash ends the call.

**RepositoryRunner.** `run[w]` is a call of `run`, by its stage; the rest is what exists
outside the process: checkouts (`dirs`), registrations (`metadata`), and three kinds of
processes. `children` are the commands' own, `holders` descendants that hold a command's
output open, `strays` all that no run waits for. `communicate` waits for the command's
own process and for the end of its output (`Awaited`); when both are over, nothing is
killed, so a descendant that closed the output goes on (`EndCommand`). On the deadline
the group is killed only if the command's own process still runs, and a second
`communicate`, now without a timeout, waits for whoever holds the output (`KillCommand`,
`Drain`). The deadline may be found to have passed at every step that looks at it, so it
needs no variable. A killed `git worktree add` may have registered the worktree;
`_remove_worktree` may fail and is ignored; the temporary directory is deleted last, and
if that fails its error replaces the verdict. Commands have sessions of their own and
survive a crash, as strays. `interrupted` is history: runs that died and runs that git
or the file system failed. Of a verdict no more is kept than whether it is one of the
failures a repair may start from.

**ExecutabilityGate.** `gate` is one call of `execute`, by its stage; `low` and `logged`
are what the host's log of power events would tell a query, and `Transition` may happen
at any moment. `disturbed` is history. `counted` says whether the receipt has a number
of generations for a block that ran; which number, and which failure it names, is not
kept.

**PatchPipeline.** Workers generate, evaluate and repair while a block runs, and a crash
takes the whole process. This
is the composition the library offers. The frozen script that uses the gate,
`benchmarks/p2_v4_scientific.py`, gives each attempt a root and a ledger of its own and
refuses to resume one (439), so a second session over the same ledger is a behaviour
of the library, not of that script; concurrent callers are what the unique index is
for, and its evaluations run in the threads of the compute fabric.

## 3. Runs

Every passing run explores its whole state space. "Bound" names the constants that
make it finite; nothing else is cut off.

| Run | Instance and bounds | Why it is enough | States |
|---|---|---|---|
| `ledger` | 3 experiments, one capped and one uncapped dimension, usages 0..3 | two rows fill the budget, the third is refused or admitted after a settlement; overruns by request, by total and both | 2.6 k |
| `execution` | 2 workers, 2 experiments, `MaxAttempts` = 4 calls of `execute` | two overlapping calls of one experiment, each retried, next to a competing one; `e1` asks for the whole budget, `e2` can overrun | 445 k |
| `invocation` | 2 callers, 2 requests, 1 response, `MaxInvocations` = 4 | a race, two retries, and two requests answered with the same bytes | 91 k |
| `drawphase` | as above with a malformed response, `MaxPhases` = 2 | a phase, its crash, and the phase run again | 196 k |
| `discovery` | 2 sessions, 2 seeds, 3 candidates, 2 objectives, `MaxRuns` = 3; pools {k1, k2} or {k1, k2, k3} over one seed, {k1} over the other | two competing runs and a third command, also a larger pool after a smaller one; racing 3 candidates for 2 places with trade-offs and ties | 653 k |
| `harness` | 3 plugins in the shape of the built-in profile, `MaxCloses` = 2 | failures at each position, a close that raises and is repeated | 554 |
| `asha` | 4 candidates, eta 2, 3 rungs (capacities 2 and 1), 2 permits, `MaxFailures` = 2, `MaxRuns` = 2 | tasks queue for permits; `MaxFailures` counts mechanical failures and timeouts: two of them use up one trial's retry, end it at once, or touch two trials; each rung promotes at its cap; the ranking differs between the rungs and has a tie; a second start meets the decisions of the first | 352 k |
| `search` | root with two replicates, `MaxSteps` = 4, budget 10, 2 attempts, 2 rungs, 3 strategies, `MaxStarts` = 2, with and without a parent policy | two locals and two escapes fit; an escape whose settlement is lost is followed by another attempt; a step with two generations overspends its floor; a value better and one worse than the root's; replicates exhaust the seeds. Local deltas are always similar (threshold 0), so escapes are not rare | 333 k |
| `pipeline` | one proposal and two repairs of it, 2 workers (symmetric), `MaxCalls` = 3, `MaxSessions` = 2, `MaxTransitions` = 1 | both repairs race, or one request is made twice and settles differently; an answer overruns the request, the budget, or neither; a crash leaves a process, a worktree and a reservation to the second session; a command is outlived by a process of either kind | 1.47 M |

What each property says:

- `OverspendIsFlagged`: the table as a whole exceeds a capped dimension only if some
  reconciliation says so. `SettlementIsFinal`: a settled row is never rewritten.
  `ImplementsAccount`: the ledger implements `BudgetAccount`; an overrun forfeits its
  claim, and what was not flagged always fits.
- `ReceiptBacksEvidence`: an evidence row has its complete, equal receipt file.
  `ScientificEvidenceIsSettled`: a scientific verdict has a settlement within budget
  with exactly its usage. `BudgetFailureIsReplayable`: a budget failure has the overrun
  or the rejection replay needs. `ScientificSpendFits`: all accepted science together
  fits the budget. `UndisturbedAttemptsComplete`: an experiment nobody disturbed ends
  with evidence, graph and event. `PublishedIsFinal`: evidence and complete receipts
  never change.
- `AtMostOnce`: the provider is entered once per request at most.
  `JournalIsTruthful`: a complete terminal record tells the answer and refers to a
  readable object. `CallersAgree`: every caller gets the one answer. `ResolvedStays`:
  a complete terminal record is never replaced.
- `ChargesAreJournaled`: a charged checkpoint rests on a complete terminal record with
  usage. `PhaseEnds`: a phase that is not killed ends.
- `DecisionFollowsRule`, `LeaderIsPromoted`, `BlindAfterDecision`,
  `CertificatesAreOfTheWinner`: the decision is the rule's choice when the candidates of
  its own run are raced over their G1 and G2 evidence, whatever other runs over the seed
  have added; the leader of a run's candidates at G1 is one of those it evaluates at G2;
  final blind is for the decided winner; a
  certificate rests on final blind evidence of the winner.
- `ProvidersOutliveUsers`, `ClosedMeansDisposed`, `AuthorityIsRoots`,
  `SearchHasItsPlugins`: reverse teardown through every failure; a closed session has
  nothing active; authority services stay the root's own objects; the search runs with
  its whole profile.

- `PromotionsKeepPace`: a rung has promoted exactly as many as its feasible
  observations and its capacity allow. `OneRunDecides`: all decisions on disk are of one
  start. `PromotionsReplay`: each promotion record is what a fresh operator makes of the
  observations it lists. `EveryTrialIsSettled`: when a run is done, every trial of every
  rung is observed once, none as a failure that had a retry left, and a timeout as the
  exhausted trial it is, without a retry. `LeaderIsPromoted`
  (of `ASHARun`): the best of a rung is promoted whenever its feasible trials fill whole
  groups of eta, in whatever order they came.
  `RunEnds`: a run that is not killed ends.
- `OnlyLastOverspends`: only the last settled step can exceed the search's budget.
  `LostSettlementStopsEscapes`: a deployment that lost its settlement stays the only one
  and no structural action follows it. `ActionsChargeTheirGenerations`: a step is charged
  for all its generations, and an interrupted one never for more.
  `HistoryIsReadable`: what is stored is what `_facts` accepts. `OnlyReevaluationRegresses`:
  the incumbent gets worse only by evaluating it again.
- `OneRepairPerRoot`, `RecordsAreSettled`: two racing repairs may both be paid for, the
  ledger has one; a stored generation was charged what its record says. `RunsCleanUp`:
  however a run ends, it leaves neither a checkout nor a registration, unless it died or
  git or the file system failed it, and it is never given up while the command's own
  process or a holder of its output is left. `AdmittedRanAwake`: a receipt that admits a
  block is of an awake host and a block that came to its end.

Deadlock checking is off where the system really may stop: the bounded number of
calls is used up, all commands have ended. The ledger on its own never stops.

**Fairness.** `DrawPhase` assumes weak fairness of `Work`, the steps of the
pool's threads and the join that ends the phase: threads of a live process keep
running, and each provider call is bounded by the provider's own timeout. The
assumption says nothing of crashes, of starting phases or of which item goes first.
`ASHARun` assumes weak fairness of `Settle` (every evaluation runs under
`asyncio.wait_for`, so it ends or times out), of `Collect \/ Handle` (the event loop runs
what is ready) and of `Finish`. It says nothing of crashes and starts, nor of which
evaluation ends first. `SearchLoop` and `PatchPipeline` assume none and state no liveness:
a provider or a command may take its time, and after some crashes the search cannot go
on (section 5).

### Disagreements the runs show

- `drawphase_unresolved`: the audit of the journal only looks whether `terminal.json`
  is a file. A crash in the middle of its write leaves a torn file; the next phase
  passes the audit, fails to parse the record, and stores a finished draw with zero
  usage for a call whose outcome is unknown (docs/DECISIONS.md D-030 forbids that).
- `discovery_second_winner`: the candidate is frozen before the create-once decision
  is written. A run that stops between the two, or loses the decision, leaves a
  second frozen candidate. `demo-certify` still evaluates the decided one only.
- `harness_failed_boot`: a plugin that was activated and then rejected by the checks
  that follow is never disposed of, against docs/RESEARCH_HARNESS_V0.md. (For that
  reason `ProvidersOutliveUsers` speaks of the plugins boot has accepted.)

## 4. Proofs

All theorems hold for every value of the constants that meets the named assumption
of the module; nothing else is assumed. Every safety invariant and every action
property of a passing run is proved for its specification, and so is the refinement
of `BudgetAccount`. What is left to TLC is named at the end of the section. Each of
the theorems rests on an inductive invariant (`...Inv`) of its module.

**SumTheorems.** The budget and the charges are sums over finite sets, which the
community module `Functions` defines by a fold, a function that recurses over the sets. An
induction theorem of the library takes an operator as its parameter, which the provers
cannot instantiate; so the induction is one about a set of naturals. The sizes of the
subsets at which the recursion has its intended value contain 0 and are closed under
successor, because a counterexample of smallest size has a smaller one
(`LeastNatural`). From that follow the facts the other modules cite: a sum is an
integer, any term can be taken out, sums are monotone, one changed term changes the
sum by the difference.

**ExperimentExecutionProofs.**
- `ExecutionTypeOK`, `ReceiptBacksEvidence`, `ScientificEvidenceIsSettled`,
  `BudgetFailureIsReplayable`, `PublishedIsFinal`. These relate published records; a
  record becomes published at the end of a long sequence of steps, so the inductive
  invariant follows the record while it is still a local: at each `pc` it says what
  the ledger already holds for it (a settlement with its usage, a rejection, a file
  that is ours). Its key part is that only one worker can hold a torn receipt file,
  the one that created it, and that the file an inserting worker has found or written
  is complete and its own.
- `UndisturbedAttemptsComplete`. For an experiment that nothing disturbed, `AttemptInv`
  has at most one call under way (two at once are a disturbance), says how far the call's
  `pc` has brought it (`Stage`), and that without one it is untouched or complete. So a
  call that starts finds nothing at all or everything, evidence linked into the graph, and
  in the second case returns at the lookup.
- `OverspendIsFlagged`, `HonouredFits`, `ImplementsAccount`, `ScientificSpendFits`.
  `LedgerInv` adds to the two budget claims what a row's flags say of its usage
  (`RowInv`). A reservation or settlement changes one term of the sum, which the admission
  query or the overrun test has compared with the limit: if the total still exceeds a
  capped dimension the reconciliation flags it, and the rows that carry no flag fit
  whether or not the others do. The refinement maps a row to a claim, open, closed or
  forfeited by its overrun, and each of the two transactions to one step of the account
  or a stutter. A step of `ExperimentExecution` is a step of the ledger or leaves the
  table alone (`ExecutionStepIsLedgerStep`), and scientific evidence has a settlement of
  its own usage without a flag, so its spend is a part of what is honoured.
- `AccountStaysWithinLimit`, of `BudgetAccount` itself, from its type invariant.

**ProviderInvocationProofs** (`InvocationTypeOK`, `AtMostOnce`, `JournalIsTruthful`,
`CallersAgree`, `ResolvedStays`). A claim file has one creator ever; only the creator
enters the provider, so at most one caller is between claim and terminal record,
and the answer it carries is the one that was given. `ChargesAreJournaled`, of
`DrawPhase`, carries that over to the workers of a phase: a worker with a result has it
from a complete record (`Tells`), complete records stay, and a worker that is saving
has its result and takes no other step.

**DiscoveryCertificationProofs.**
- `LeaderSurvivesRacing`, `WinnerLeads`, about the operators of `SafeRacing`. `Precedes`
  is a strict total order when names are distinct; nothing dominates the leader because
  the rule orders exactly the objectives (`RacingAssumption`), so it is on the front and
  among its first. A non-empty finite set has a leader, by induction on cardinality
  through a smallest counterexample.
- `DiscoveryTypeOK`, `DecisionFollowsRule`, `LeaderIsPromoted`, `BlindAfterDecision`,
  `CertificatesAreOfTheWinner`. The inductive invariant says which evidence a session at
  each stage rests on, that evidence never changes, that at most one session is writing
  a decision file, and that a written decision names a frozen candidate that was the
  rule's choice. Racing looks at nothing but the candidates of the pool
  (`RankingIsLocal`), and only what was feasible at G0 has later evidence
  (`OnlySurvivorsGoOn`), so what runs with other pools add over the same seed changes no
  choice.

**HarnessLifecycleProofs** (`HarnessTypeOK`, `ProvidersOutliveUsers`,
`ClosedMeansDisposed`, `AuthorityIsRoots`, `SearchHasItsPlugins`). The active plugins
among the accepted ones are always an initial piece of the profile, each was given
objects of earlier ones only, and a teardown has nothing active behind it; that
survives a dispose that raises and a second close.

**PatchPipelineProofs** (`SettlementIsFinal` of `ResourceLedger`; `OneRepairPerRoot`,
`RecordsAreSettled`, `RunsCleanUp`, `AdmittedRanAwake`). The three
components share no variable, so the invariant is a conjunction of three and a step
of one leaves the others' alone. For generation it follows a call: a repair's root
has succeeded, a charged call's reservation is settled with its usage, a call about
to record a success is within budget and has its candidate; settled reservations and
stored rows never change, which keeps the calls of other workers true. For the runner
it says at which stages a run can have a checkout, a registration or a process it
waits for, and that no two workers run one candidate. For the gate, that a disturbance
is in the log until the session returns.

**SearchLoopProofs.**
- `LostSettlementStopsEscapes`: a structural action is planned only when nothing is
  pending, and until it is settled what is pending is its own deployment.
- `HistoryIsReadable` follows the plan of a step from the projection it was made in to
  its record: the plan's candidate is in the scope of the steps before, an action that
  is not generative is about the current candidate (the only active one, so whatever
  `decide` picks is it), and evidence only grows.
- `ActionsChargeTheirGenerations`: a candidate's number tells the step it was made for
  (`MadeOnce`); the generations of the step at work are those the loop still has in its
  hand, or the step was cut short before (`FreshStep`), so what it is charged when it
  is stored is their sum. `OnlyLastOverspends`: a plan is made only when what is used
  leaves something, and nothing is charged until its action is stored.
- `OnlyReevaluationRegresses`: the best utility is the least of the ranked candidates'
  (`BestIsLeast`). A candidate's utility is a function of its own evidence
  (`UtilityStays`), so a step that leaves the incumbent's evidence alone leaves it ranked
  with its utility, and the others can only bring the least down.

**ASHARunProofs.** Four invariants, each over the ones before.
- `TrialInv`: a candidate has at most one trial on a rung, and on a later rung exactly
  the promoted candidates have one; a trial is waiting for a permit, holding one,
  ended, in the batch, or observed, in exactly one of these places, and what waits has
  no evidence. A run that ends has nothing waiting and nothing to handle, so every
  trial is observed: `EveryTrialIsSettled`.
- `PaceInv`, for `PromotionsKeepPace`: the code promotes at most once per observation,
  but one observation adds at most one feasible trial and so opens at most one slot
  (`AllowedAfter`); and if a slot is open then there is an eligible trial
  (`NoneEligible`), because fewer are promoted than have been observed as feasible.
- `LeadInv`, for `LeaderIsPromoted`. The observation that fills a group opens a slot,
  and the capacity never stands in its way (`RungIsBounded`): a rung observes no
  more trials than the rung before may promote, and that number divided by `eta` is the
  rung's own capacity (`CapacityOfRung`, where the powers of `eta` meet). The best is then
  promoted already or is the best one eligible. `PromotionsReplay` needs in
  addition that what a record names never changes.
- `OneRunInv`, for `OneRunDecides`. While a start has decided nothing, it has only
  scheduled first attempts on the first rung, as every start does; it meets their
  receipts in the order of `created_at` from the first one on. So it retraces what any
  other start did before its first decision, is led to the same decision, and finds it
  on disk (`NextInOrder`, `RetracedObservation`). What this turns on is that no wait
  leaves a receipt behind that is earlier than one it returns: evidence is recorded only
  while the runner waits, and `asyncio.wait` returns all that ended.

Model-checked only: `PhaseEnds` and `RunEnds`, since liveness under fairness is beyond
the prover. The three disagreements of section 3 are counterexamples TLC finds. The
type invariants of the ledger and of the modules with proofs are not listed in the
runs: the theorems above have them (`ExecutionTypeOK` is in both).

## 5. What the models leave out, and what they showed besides

Pure functions over immutable data (contracts, codecs, mechanism analysis, fairness
audits), command line dispatch, semantic memory and the historical benchmark scripts
have no interleavings or durable protocol of their own. What evaluators and providers
compute is a nondeterministic outcome. Times, names and digests appear only where two
of them being equal or not matters. In detail:

- Search: what the projection hands to prompts, the weights of the parent policy (any
  feasible parent may be drawn), budgets of several dimensions, and a novelty policy
  that degrades instead of rejecting.
- Generation: budgets of one dimension; the parsing of the codex log. A failure whose
  usage cannot be parsed is charged zero tokens as an exact usage, which is below what the
  model charges it.
- Runner: the branch of `_kill_process_tree` for win32 (`taskkill`) and the time a wait
  takes. Changed paths are compared by name, so rewriting a file that was already touched
  is not noticed.
- Gate: the log is assumed to reach back far enough (`lookback` is 86,400 s); a
  transition after the final query and before the release is not seen by anyone, and
  is not counted as a disturbance.

Behaviours of the code that are in the models' state spaces and that no run states as a
property of its own:

- With a parent policy, a step that is interrupted after its parent receipt can never be
  redone (`BindFails`), and a step interrupted after a stored generation always raises
  when it is redone (`ProposeFails`), after paying and adding a candidate without a
  generation.
- Evidence of an interrupted replicate counts in the next projection and is charged to
  no action.
- Evaluating the incumbent again can make it worse; the trace of that step then raises,
  as docs/MVP0_BUDGET_REACHABILITY_REPAIR.md:124 asks of settlement, although its action
  is durable, and the next start goes on.
- An EvoX strategy whose parent mode is the incumbent makes `plan` raise whenever the
  incumbent is not the current candidate, although docs/EVOX_STRATEGY_PARITY_SLICE.md:22
  has a non-improving observation switch to incumbent recombination.
- A command's descendants outlive its normal end if they have closed its output. One
  that holds the output after the command's own process has exited is not killed on the
  deadline, nor is one that has left the session: the run then waits for it without a
  timeout, past its deadline.
- A run that raises leaves its harness session open unless its user closes it; the
  harness runtime does not.
- Two racing repairs are both paid for; the loser's candidate has no generation record.
- A second start of an ASHA run under the same run id stops at the first decision the
  earlier start has stored.

## 6. Plan

1. Done: reservations, execution, invocations, provider phase, discovery and
   certification, harness lifecycle; successive halving on the compute fabric; search
   loop with controller, projection and EvoX strategy; patch generation, repository
   runner and executability gate with their composition.
2. Proved: every safety invariant and action property of the passing runs. Next to
   prove: what the invariants say of the composed modules that no run asks about, such
   as `SettlementIsFinal` in `ExperimentExecution`.
3. Next to model: a search over several budget dimensions; the threads that outlive a
   timeout as holders of ledger connections.
