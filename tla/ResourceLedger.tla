-------------------------- MODULE ResourceLedger ---------------------------
(***************************************************************************)
(* The resource_reservations table of EvidenceLedger                       *)
(* (src/discoveryos/runtime/ledger.py) and the two transactions on it,     *)
(* reserve_resources and reconcile_resources.  Both run under BEGIN        *)
(* IMMEDIATE, so each is one step.  A caller that gets an exception        *)
(* (BudgetExceeded, LedgerConflict) has changed nothing: those outcomes    *)
(* are the predicates Refused and ReconcileConflict.                       *)
(***************************************************************************)
EXTENDS Integers, FiniteSets, Functions

CONSTANTS
  Experiments,  \* experiment ids; a reservation id is derived from each
  Dims,         \* tokens, cpu_seconds, gpu_seconds, device_seconds, wall_seconds
  Requested,    \* experiment.resources, frozen with the experiment's identity
  Limit,        \* contract.budget
  Usages        \* the actual usages a worker may come back with

ASSUME LedgerAssumption ==
  /\ IsFiniteSet(Experiments)
  /\ Requested \in [Experiments -> [Dims -> Nat]]
  /\ Limit \in [Dims -> Nat]
  /\ Usages \subseteq [Dims -> Nat]

VARIABLE reservations

Zero == [d \in Dims |-> 0]

RowStatus == {"NONE", "RESERVED", "RECONCILED"}

\* "over" holds the exceeded_dimensions of the stored ResourceReconciliation.
Row == [status : RowStatus, actual : Usages \cup {Zero}, over : SUBSET Dims]

NoRow == [status |-> "NONE", actual |-> Zero, over |-> {}]

InitReservations == reservations = [e \in Experiments |-> NoRow]

\* What a row contributes to the totals: CASE WHEN status='RECONCILED' THEN
\* actual ELSE requested.
Charge(e, d) ==
  CASE reservations[e].status = "NONE"       -> 0
    [] reservations[e].status = "RESERVED"   -> Requested[e][d]
    [] reservations[e].status = "RECONCILED" -> reservations[e].actual[d]

TotalOver(S, d) == SumFunction([e \in S |-> Charge(e, d)])

\* Mutant: the check forgets the amount being asked for.
ExceedsForgettingAmount(others, amount, d) ==
  Limit[d] > 0 /\ TotalOver(others, d) > Limit[d]

\* A dimension whose limit is 0 is not capped.
Exceeds(others, amount, d) ==
  Limit[d] > 0 /\ TotalOver(others, d) + amount[d] > Limit[d]

RefusedDims(e) == {d \in Dims : Exceeds(Experiments, Requested[e], d)}

\* Mutant: an overrun is only a total above the limit.
OverrunDimsTotalOnly(e, actual) ==
  {d \in Dims : Exceeds(Experiments \ {e}, actual, d)}

OverrunDims(e, actual) ==
  {d \in Dims : \/ actual[d] > Requested[e][d]
                \/ Exceeds(Experiments \ {e}, actual, d)}

-----------------------------------------------------------------------------
(* reserve_resources *)

Refused(e) == reservations[e].status = "NONE" /\ RefusedDims(e) # {}

ReserveNew(e) ==
  /\ reservations[e].status = "NONE"
  /\ RefusedDims(e) = {}
  /\ reservations' = [reservations EXCEPT ![e].status = "RESERVED"]

\* A second reservation of the same experiment returns the stored row.
ReserveAgain(e) ==
  /\ reservations[e].status # "NONE"
  /\ UNCHANGED reservations

ReserveResources(e) == ReserveNew(e) \/ ReserveAgain(e)

-----------------------------------------------------------------------------
(* reconcile_resources *)

\* Mutant: a settled row may be settled again.
ReconcileNewRepeatable(e, actual) ==
  /\ reservations[e].status # "NONE"
  /\ reservations' = [reservations EXCEPT
       ![e] = [status |-> "RECONCILED", actual |-> actual,
               over |-> OverrunDims(e, actual)]]

ReconcileNew(e, actual) ==
  /\ reservations[e].status = "RESERVED"
  /\ reservations' = [reservations EXCEPT
       ![e] = [status |-> "RECONCILED", actual |-> actual,
               over |-> OverrunDims(e, actual)]]

\* Mutant: a repeated reconciliation returns the stored result unread.
ReconcileAgainUnread(e, actual) ==
  /\ reservations[e].status = "RECONCILED"
  /\ UNCHANGED reservations

\* Reconciling again with the same usage returns the stored result.
ReconcileAgain(e, actual) ==
  /\ reservations[e].status = "RECONCILED"
  /\ reservations[e].actual = actual
  /\ UNCHANGED reservations

ReconcileConflict(e, actual) ==
  \/ reservations[e].status = "NONE"
  \/ reservations[e].status = "RECONCILED" /\ reservations[e].actual # actual

ReconcileResources(e, actual) == ReconcileNew(e, actual) \/ ReconcileAgain(e, actual)

-----------------------------------------------------------------------------
(* The table on its own: any caller, any order. *)

Next ==
  \E e \in Experiments :
    \/ ReserveResources(e)
    \/ \E u \in Usages : ReconcileResources(e, u)

Spec == InitReservations /\ [][Next]_reservations

TypeOK == reservations \in [Experiments -> Row]

\* Refinement mapping: an overrun reconciliation forfeits its claim.
ClaimOf(e) ==
  CASE reservations[e].status = "NONE"       -> "none"
    [] reservations[e].status = "RESERVED"   -> "open"
    [] reservations[e].status = "RECONCILED" ->
         IF reservations[e].over = {} THEN "closed" ELSE "forfeit"

Honoured == {e \in Experiments : reservations[e].over = {}}

Account == INSTANCE BudgetAccount WITH
  claim    <- [e \in Experiments |-> ClaimOf(e)],
  honoured <- [d \in Dims |-> TotalOver(Honoured, d)]

\* The two transactions of the ledger implement the budget's promise: rows
\* that were not flagged as overruns never add up to more than the contract
\* allows, however reservations and reconciliations interleave.
ImplementsAccount == Account!Spec

\* A settled row is final: the reconciliation a receipt was built from is
\* never rewritten by a late or repeated reconciliation.
SettlementIsFinal ==
  [][\A e \in Experiments :
       reservations[e].status = "RECONCILED" => reservations'[e] = reservations[e]]_reservations

\* The table as a whole may exceed the contract only if some reconciliation
\* says so in a capped dimension: an overspend is never silent.
OverspendIsFlagged ==
  \A d \in Dims :
    Limit[d] > 0 /\ TotalOver(Experiments, d) > Limit[d]
      => \E e \in Experiments : d \in reservations[e].over
============================================================================
