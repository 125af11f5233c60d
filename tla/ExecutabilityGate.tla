------------------------- MODULE ExecutabilityGate --------------------------
(***************************************************************************)
(* ExecutabilityGate.execute (src/discoveryos/runtime/executability_gate.  *)
(* py): a block runs under a lease that keeps the host awake, between two  *)
(* queries of the host's log of power events.  A session is one execute.   *)
(***************************************************************************)
EXTENDS Integers, FiniteSets

CONSTANTS
  MaxSessions,    \* bound: sessions
  MaxTransitions  \* bound: times the host enters or leaves a low-power state

ASSUME GateAssumption == MaxSessions \in Nat /\ MaxTransitions \in Nat

VARIABLES
  gate,         \* the session: [stage, failed, ran, counted, disturbed]
  lease,        \* the power request: "none", "held"
  low,          \* is the last transition in the log an entry
  logged,       \* transitions logged since the session began
  transitions,  \* transitions so far
  sessions,     \* sessions so far
  receipts      \* [admitted, ran, counted, disturbed] returned

gateVars == <<gate, lease, low, logged, transitions, sessions, receipts>>

\* counted: is the number of generations made, generation_calls_executed, known.
\* disturbed is a history: was the host low, or did it change, before the
\* block was over.
NoSession ==
  [stage |-> "none", failed |-> FALSE, ran |-> FALSE, counted |-> TRUE, disturbed |-> FALSE]

InitGate ==
  /\ gate = NoSession /\ lease = "none" /\ low = FALSE /\ logged = 0
  /\ transitions = 0 /\ sessions = 0 /\ receipts = {}

\* The host enters or leaves a low-power state, in spite of a lease too.
Transition ==
  /\ transitions < MaxTransitions
  /\ transitions' = transitions + 1
  /\ low' = ~low
  /\ logged' = logged + 1
  /\ gate' = [gate EXCEPT !.disturbed = @ \/ gate.stage \in {"acquiring", "preflight", "baseline",
                                                            "block"}]
  /\ UNCHANGED <<lease, sessions, receipts>>

Enter(stage) == gate' = [gate EXCEPT !.stage = stage]

\* Which of its FAILURES a session ends with is not kept.
Fail(stage) == gate' = [gate EXCEPT !.stage = stage, !.failed = TRUE]

StartSession ==
  /\ gate.stage = "none" /\ sessions < MaxSessions
  /\ sessions' = sessions + 1
  /\ gate' = [NoSession EXCEPT !.stage = "acquiring", !.disturbed = low]
  /\ logged' = 0
  /\ UNCHANGED <<lease, low, transitions, receipts>>

\* acquire; one that fails half way has released what it had.
Acquire ==
  /\ gate.stage = "acquiring"
  /\ \/ lease' = "held" /\ Enter("preflight")
     \/ UNCHANGED lease /\ Fail("returning")
  /\ UNCHANGED <<low, logged, transitions, sessions, receipts>>

\* _overlapping_power_events: those since the session began, and an entry
\* before it that was not left again.
Low == logged > 0 \/ low

Preflight ==
  /\ gate.stage = "preflight"
  /\ (~Low /\ Enter("baseline")) \/ Fail("reconciling")
  /\ UNCHANGED <<lease, low, logged, transitions, sessions, receipts>>

\* The probe, _validate_baseline, and with it _validate_timing.  A session may
\* have no scientific block.
Baseline ==
  /\ gate.stage = "baseline"
  /\ \/ gate' = [gate EXCEPT !.stage = "block", !.ran = TRUE, !.counted = FALSE]
     \/ Enter("reconciling") \/ Fail("reconciling")
  /\ UNCHANGED <<lease, low, logged, transitions, sessions, receipts>>

\* The block returns how many generations it made, or raises.
BlockReturns ==
  /\ gate.stage = "block"
  /\ \E f \in BOOLEAN :
       gate' = [gate EXCEPT !.stage = "reconciling", !.failed = f, !.counted = TRUE]
  /\ UNCHANGED <<lease, low, logged, transitions, sessions, receipts>>

BlockRaises ==
  /\ gate.stage = "block"
  /\ Fail("reconciling")
  /\ UNCHANGED <<lease, low, logged, transitions, sessions, receipts>>

\* Mutant: the log is not queried again after the block.
ReconcileUnqueried ==
  /\ gate.stage = "reconciling"
  /\ Enter("releasing")
  /\ UNCHANGED <<lease, low, logged, transitions, sessions, receipts>>

\* The log is queried again: what it says replaces any other failure.
Reconcile ==
  /\ gate.stage = "reconciling"
  /\ (~Low /\ Enter("releasing")) \/ Fail("releasing")
  /\ UNCHANGED <<lease, low, logged, transitions, sessions, receipts>>

\* The handle is closed whatever fails; a failure is only the first.
Release ==
  /\ gate.stage = "releasing"
  /\ lease' = "none"
  /\ Enter("returning") \/ Fail("returning")
  /\ UNCHANGED <<low, logged, transitions, sessions, receipts>>

ReturnReceipt ==
  /\ gate.stage = "returning"
  /\ receipts' = receipts \cup
       {[admitted |-> ~gate.failed, ran |-> gate.ran, counted |-> gate.counted,
         disturbed |-> gate.disturbed]}
  /\ gate' = NoSession
  /\ UNCHANGED <<lease, low, logged, transitions, sessions>>

\* Windows takes back the request of a process that dies.
GateCrash ==
  /\ gate' = NoSession /\ lease' = "none"
  /\ UNCHANGED <<low, logged, transitions, sessions, receipts>>

------------------------------------------------------------------------------

\* A session is admitted only if the host was awake when it began and did not
\* change until its block was over, whenever that would have been, and only
\* if a block that was started came to its end.
AdmittedRanAwake ==
  \A r \in receipts : r.admitted => ~r.disturbed /\ (r.ran => r.counted)
==============================================================================
