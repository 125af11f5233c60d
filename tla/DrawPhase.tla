----------------------------- MODULE DrawPhase -----------------------------
(***************************************************************************)
(* A provider phase of the frozen experiments: _execute_implementations    *)
(* and _generate_implementation                                            *)
(* (src/discoveryos/benchmarks/executable_mechanism_contract.py).  One     *)
(* process audits the invocation journal, then a pool of workers draws     *)
(* every scheduled item through DurableProviderInvoker and checkpoints the *)
(* draw with the usage it is charged.  After a crash the phase is run      *)
(* again over the same journal and checkpoints.                            *)
(***************************************************************************)
EXTENDS ProviderInvocation

CONSTANTS
  Malformed,   \* responses that are not the JSON object the schema asks for
  MaxPhases    \* bound: runs of the phase in one behaviour

ASSUME PhaseAssumption == Malformed \subseteq Responses /\ MaxPhases \in Nat

VARIABLES
  phase,       \* "closed", or "open" from the audit to the end of the pool
  phases,
  pending,     \* scheduled items the pool has not started
  draws,       \* draw checkpoint per item: absent, torn, or what it charges
  saving       \* workers between creating a checkpoint file and writing it

phaseVars == <<phase, phases, pending, draws, saving>>
drawVars == <<invocationVars, phaseVars>>

DrawStates == {"absent", "torn", "charged", "uncharged"}

Saved(r) == draws[r] \in {"charged", "uncharged"}

Busy(c) == task[c].pc \in Running \cup {"done"}

PhaseInit ==
  /\ InvocationInit
  /\ phase = "closed" /\ phases = 0 /\ pending = {}
  /\ draws = [r \in Requests |-> "absent"]
  /\ saving = {}

-----------------------------------------------------------------------------

\* assert_no_orphaned_invocations looks for terminal.json, not into it.
Orphaned(r) == claims[r] # "absent" /\ terminals[r] = NoAnswer

OpenPhase ==
  /\ phase = "closed" /\ phases < MaxPhases
  /\ \A r \in Requests : ~Orphaned(r)
  /\ phase' = "open" /\ phases' = phases + 1
  /\ pending' = Requests
  /\ UNCHANGED <<invocationVars, draws, saving>>

\* A worker takes an item; a saved checkpoint is loaded, and a torn one raises.
SkipDrawn(c, r) ==
  /\ phase = "open" /\ ~Busy(c) /\ r \in pending
  /\ draws[r] # "absent"
  /\ pending' = pending \ {r}
  /\ UNCHANGED <<invocationVars, phase, phases, draws, saving>>

Draw(c, r) ==
  /\ phase = "open" /\ ~Busy(c) /\ r \in pending
  /\ draws[r] = "absent"
  /\ pending' = pending \ {r}
  /\ Invoke(c, r)
  /\ UNCHANGED <<phase, phases, draws, saving>>

\* Mutant: a failure is charged as a generation is.
ChargeEveryFailure(t) ==
  IF t.result = "generation" /\ t.answer.response \in Malformed THEN {"uncharged"}
    ELSE {"charged"}

\* What a draw may be charged.  The usage is taken over last, once the response
\* has parsed and its source been evaluated, which may raise; a provider
\* failure brings its own, if it knows it; any ValueError counts as a failure
\* without usage, the JSON error of a torn record included.
Charge(t) ==
  CASE t.result = "generation" ->
         IF t.answer.response \in Malformed THEN {"uncharged"} ELSE {"charged", "uncharged"}
    [] t.result = "failure"    -> IF t.answer.metered THEN {"charged"} ELSE {"uncharged"}
    [] t.result = "malformed"  -> {"uncharged"}

OpenCheckpoint(c) ==
  /\ At(c, "done") /\ c \notin saving
  /\ task[c].result \in {"generation", "failure", "malformed"}
  /\ draws' = [draws EXCEPT ![Req(c)] = "torn"]
  /\ saving' = saving \cup {c}
  /\ UNCHANGED <<invocationVars, phase, phases, pending>>

WriteCheckpoint(c) ==
  /\ c \in saving
  /\ \E d \in Charge(task[c]) : draws' = [draws EXCEPT ![Req(c)] = d]
  /\ task' = [task EXCEPT ![c] = Idle]
  /\ saving' = saving \ {c}
  /\ UNCHANGED <<journal, history, invocations, phase, phases, pending>>

CheckpointWriteFails(c) ==
  /\ c \in saving
  /\ draws' = [draws EXCEPT ![Req(c)] = "absent"]
  /\ task' = [task EXCEPT ![c] = Idle]
  /\ saving' = saving \ {c}
  /\ UNCHANGED <<journal, history, invocations, phase, phases, pending>>

\* Mutant: only the journal's own exceptions end an item.
ItemFailsUnknownOnly(c) ==
  /\ At(c, "done") /\ c \notin saving
  /\ task[c].result = "unknown"
  /\ task' = [task EXCEPT ![c] = Idle]
  /\ UNCHANGED <<journal, history, invocations, phaseVars>>

\* Storing the source may fail; other exceptions reach future.result and fail
\* the phase once the pool is done; the items already submitted still run.
ItemFails(c) ==
  /\ At(c, "done") /\ c \notin saving
  /\ task[c].result \in {"unknown", "error", "generation"}
  /\ task' = [task EXCEPT ![c] = Idle]
  /\ UNCHANGED <<journal, history, invocations, phaseVars>>

ClosePhase ==
  /\ phase = "open" /\ pending = {}
  /\ \A c \in Callers : ~Busy(c)
  /\ phase' = "closed"
  /\ UNCHANGED <<invocationVars, phases, pending, draws, saving>>

\* The process dies with all its workers.
Crash ==
  /\ phase = "open"
  /\ phase' = "closed"
  /\ task' = [c \in Callers |-> Idle]
  /\ saving' = {}
  /\ UNCHANGED <<journal, history, invocations, phases, pending, draws>>

Work ==
  \/ \E c \in Callers :
       \/ InvokerStep(c) /\ UNCHANGED phaseVars
       \/ OpenCheckpoint(c) \/ WriteCheckpoint(c) \/ CheckpointWriteFails(c)
       \/ ItemFails(c)
       \/ \E r \in Requests : SkipDrawn(c, r) \/ Draw(c, r)
  \/ ClosePhase

PhaseNext == OpenPhase \/ Work \/ Crash

PhaseSpec == PhaseInit /\ [][PhaseNext]_drawVars /\ WF_drawVars(Work)

-----------------------------------------------------------------------------
(* Properties *)

\* What a checkpoint charges is what the journal can prove: its terminal record
\* is complete and carries the provider's own usage.
ChargesAreJournaled ==
  \A r \in Requests :
    draws[r] = "charged" => terminals[r] = answers[r] /\ answers[r] \in Answers
                            /\ answers[r].metered

\* docs/DECISIONS.md D-030: only a complete terminal record lets a phase go on;
\* a call whose state is unknown is never turned into a finished draw.
DrawsAreResolved ==
  \A r \in Requests : Saved(r) => terminals[r] \in Answers

\* A phase that is not killed comes to its end, whatever its calls come to.
PhaseEnds == phase = "open" ~> phase = "closed"
============================================================================
