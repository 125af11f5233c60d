--------------------------- MODULE PatchPipeline ----------------------------
(***************************************************************************)
(* Patches are generated, run and repaired inside the blocks of an         *)
(* executability gate: the block's workers call LocalPatchOperator         *)
(* (LocalPatchGeneration), evaluate what it materializes                   *)
(* (RepositoryRunner), and repair what failed mechanically.  The process   *)
(* dies at any point and starts again over the same ledger and repository. *)
(***************************************************************************)
EXTENDS LocalPatchGeneration, RepositoryRunner, ExecutabilityGate

ASSUME SameWorkers == Runners = Workers

pipelineVars == <<generationVars, runnerVars, gateVars>>

InitPipeline == InitGeneration /\ InitRunner /\ InitGate

Free(w) == at[w] = "idle" /\ run[w].stage = "none"

Broken == {v.cand : v \in {v \in verdicts : v.mechanical}}

\* The candidates the workers know of: those of the generations on record.
Known == {rows[g].cand : g \in {g \in Experiments : rows[g].status = "SUCCEEDED"}}

Generate(w) ==
  /\ gate.stage = "block"
  /\ \/ /\ run[w].stage = "none"
        /\ \E g \in Experiments : Propose(w, g) \/ Repair(w, g, Broken)
     \/ Reserve(w) \/ ReserveRefused(w)
     \/ \E u \in Usages, s \in {"SUCCEEDED", "INVALID_RESPONSE", "PROVIDER_FAILURE"} :
          Answer(w, s, u)
     \/ AnswerUnmetered(w) \/ ProviderRaises(w)
     \/ Settle(w) \/ SettleRaises(w) \/ Materialize(w)
     \/ Record(w) \/ RecordRaises(w) \/ Reject(w)
  /\ UNCHANGED <<runnerVars, gateVars>>

Evaluate(w) ==
  /\ gate.stage = "block"
  /\ \/ /\ Free(w)
        /\ \E c \in Known : ~Evaluated(c) /\ c \notin Running /\ StartRun(w, c)
     \/ Verify(w) \/ Add(w) \/ Patch(w) \/ Inspect(w)
     \/ StartCommand(w) \/ Spawn(w) \/ Outlive(w)
     \/ EndCommand(w) \/ KillCommand(w) \/ Drain(w)
     \/ Recheck(w) \/ Report(w) \/ Remove(w) \/ Clean(w)
  /\ UNCHANGED <<generationVars, gateVars>>

Orphan == (\E c \in strays : StrayExits(c)) /\ UNCHANGED <<generationVars, gateVars>>

AllFree == \A w \in Workers : Free(w)

Gate ==
  /\ \/ StartSession \/ Transition \/ Acquire \/ Preflight \/ Baseline
     \/ AllFree /\ (BlockReturns \/ BlockRaises)
     \/ Reconcile \/ Release \/ ReturnReceipt
  /\ UNCHANGED <<generationVars, runnerVars>>

Crash ==
  /\ gate.stage # "none"
  /\ GateCrash /\ GenerationCrash /\ RunnerCrash

PipelineNext ==
  \/ \E w \in Workers : Generate(w) \/ Evaluate(w)
  \/ Orphan \/ Gate \/ Crash

PipelineSpec == InitPipeline /\ [][PipelineNext]_pipelineVars
==============================================================================
