------------------------ MODULE ExperimentExecution ------------------------
(***************************************************************************)
(* ExperimentExecutor.execute and _record                                  *)
(* (src/discoveryos/runtime/scheduler.py): the path every experiment takes *)
(* from its row in the ledger, through the two-phase budget and the        *)
(* evaluator, to a create-once receipt file and an evidence row.           *)
(*                                                                         *)
(* A worker is one running call of execute.  Several may run at once: the  *)
(* coroutines one runner gathers, or processes sharing the workspace (the  *)
(* ledger opens a connection per transaction and waits for its lock).      *)
(* Every SQLite transaction and every file-system operation is one step,   *)
(* so a crash may fall between any two of them.                            *)
(***************************************************************************)
EXTENDS ResourceLedger

CONSTANTS
  Workers,
  Outcomes,     \* what an evaluation comes to, budget verdicts apart
  MaxAttempts   \* bound: calls of execute in one behaviour

ASSUME ExecutionAssumption ==
  /\ "BUDGET_EXHAUSTED" \notin Outcomes
  /\ "NONE" \notin Outcomes
  /\ "TORN" \notin Outcomes
  /\ MaxAttempts \in Nat

VARIABLES
  experiments,  \* experiments table
  rejections,   \* resource_reservation_rejections: exceeded_dimensions per row
  receipts,     \* the file receipts/<candidate>/<fidelity>/<experiment>.json
  evidence,     \* evidence table
  nodes, edges, \* evidence nodes and PRODUCED edges of the Research Graph
  events,       \* EVIDENCE_RECORDED events
  task,         \* task[w]: control state and locals of worker w
  attempts,     \* calls of execute so far: the source of created_at stamps
  disturbed     \* history: experiments with an attempt cut short or overlapped

ledgerVars == <<experiments, rejections, evidence, nodes, edges, events>>
vars == <<reservations, ledgerVars, receipts, task, attempts, disturbed>>

Kinds == Outcomes \cup {"BUDGET_EXHAUSTED"}

\* An EvidenceRecord: "attempt" stands for created_at, the rest is its identity.
Record == [attempt : 1..MaxAttempts, kind : Kinds, usage : Usages \cup {Zero}]

NoRecord == [attempt |-> 0, kind |-> "NONE", usage |-> Zero]
Torn     == [attempt |-> 0, kind |-> "TORN", usage |-> Zero]

SameReceiptId(r, s) == r.kind = s.kind /\ r.usage = s.usage

Running == {"lookup", "reserve", "reject", "evaluate", "reconcile",
            "open", "write", "insert", "node", "edge", "event"}
Stopped == {"idle", "returned", "raised"}

At(w, pc) == task[w].pc = pc
Exp(w) == task[w].exp
Mine(w) == task[w].record

AtRest(pc, e) == [pc |-> pc, exp |-> e, record |-> NoRecord, refused |-> {}]

Idle == AtRest("idle", "none")

Goto(w, pc) == task' = [task EXCEPT ![w].pc = pc]

\* execute returns or raises; its locals are gone.
Return(w) == task' = [task EXCEPT ![w] = AtRest("returned", Exp(w))]
Raise(w)  == task' = [task EXCEPT ![w] = AtRest("raised", Exp(w))]

Init ==
  /\ InitReservations
  /\ experiments = {} /\ nodes = {} /\ edges = {} /\ events = {}
  /\ rejections = [e \in Experiments |-> {}]
  /\ receipts = [e \in Experiments |-> NoRecord]
  /\ evidence = [e \in Experiments |-> NoRecord]
  /\ task = [w \in Workers |-> Idle]
  /\ attempts = 0
  /\ disturbed = {}

-----------------------------------------------------------------------------
(* Lookup: add_experiment, then the early return for existing evidence. *)

Start(w, e) ==
  /\ task[w].pc \in Stopped
  /\ attempts < MaxAttempts
  /\ attempts' = attempts + 1
  /\ experiments' = experiments \cup {e}
  /\ task' = [task EXCEPT ![w] = [pc |-> "lookup", exp |-> e, refused |-> {},
                                  record |-> [NoRecord EXCEPT !.attempt = attempts + 1]]]
  /\ disturbed' = IF \E v \in Workers \ {w} : task[v].pc \in Running /\ Exp(v) = e
                  THEN disturbed \cup {e} ELSE disturbed
  /\ UNCHANGED <<reservations, rejections, evidence, nodes, edges, events, receipts>>

\* Mutant: a receipt file is never accepted as the one the row was built from.
ReturnExistingRestamped(w) ==
  /\ At(w, "lookup")
  /\ evidence[Exp(w)] # NoRecord
  /\ \/ /\ receipts[Exp(w)] = NoRecord
        /\ receipts' = [receipts EXCEPT ![Exp(w)] = evidence[Exp(w)]]
        /\ Return(w)
     \/ /\ receipts[Exp(w)] # NoRecord
        /\ Raise(w)
        /\ UNCHANGED receipts
  /\ UNCHANGED <<reservations, ledgerVars, attempts, disturbed>>

\* Existing evidence is returned after its receipt file is checked or restored.
ReturnExisting(w) ==
  /\ At(w, "lookup")
  /\ evidence[Exp(w)] # NoRecord
  /\ \/ /\ receipts[Exp(w)] \in {NoRecord, evidence[Exp(w)]}
        /\ receipts' = [receipts EXCEPT ![Exp(w)] = evidence[Exp(w)]]
        /\ Return(w)
     \/ /\ receipts[Exp(w)] \notin {NoRecord, evidence[Exp(w)]}
        /\ Raise(w)
        /\ UNCHANGED receipts
  /\ UNCHANGED <<reservations, ledgerVars, attempts, disturbed>>

NoExisting(w) ==
  /\ At(w, "lookup")
  /\ evidence[Exp(w)] = NoRecord
  /\ Goto(w, "reserve")
  /\ UNCHANGED <<reservations, ledgerVars, receipts, attempts, disturbed>>

\* _insert_once selects and inserts outside one transaction: of two calls that
\* both found no row, the later one violates the key.  It is the experiment's row
\* that both insert, or the rejection's.
LoseInsertRace(w) ==
  /\ At(w, "lookup") \/ (At(w, "reject") /\ rejections[Exp(w)] # {})
  /\ \E v \in Workers \ {w} : task[v].pc \in Running /\ Exp(v) = Exp(w)
  /\ Raise(w)
  /\ UNCHANGED <<reservations, ledgerVars, receipts, attempts, disturbed>>

-----------------------------------------------------------------------------
(* Reservation, or its rejection, which is evidence of its own. *)

ReserveBudget(w) ==
  /\ At(w, "reserve")
  /\ ReserveResources(Exp(w))
  /\ Goto(w, "evaluate")
  /\ UNCHANGED <<ledgerVars, receipts, attempts, disturbed>>

CatchBudgetExceeded(w) ==
  /\ At(w, "reserve")
  /\ Refused(Exp(w))
  /\ task' = [task EXCEPT ![w].pc = "reject", ![w].refused = RefusedDims(Exp(w))]
  /\ UNCHANGED <<reservations, ledgerVars, receipts, attempts, disturbed>>

\* Mutant: the refusal becomes a verdict without being stored.
RecordRejectionUnstored(w) ==
  /\ At(w, "reject")
  /\ task' = [task EXCEPT ![w].pc = "open",
                          ![w].record.kind = "BUDGET_EXHAUSTED"]
  /\ UNCHANGED <<reservations, ledgerVars, receipts, attempts, disturbed>>

\* record_resource_rejection: a stored rejection must name the same dimensions.
RecordRejection(w) ==
  /\ At(w, "reject")
  /\ \/ /\ rejections[Exp(w)] \in {{}, task[w].refused}
        /\ rejections' = [rejections EXCEPT ![Exp(w)] = task[w].refused]
        /\ task' = [task EXCEPT ![w].pc = "open",
                                ![w].record.kind = "BUDGET_EXHAUSTED"]
     \/ /\ rejections[Exp(w)] \notin {{}, task[w].refused}
        /\ Raise(w)
        /\ UNCHANGED rejections
  /\ UNCHANGED <<reservations, experiments, evidence, nodes, edges, events,
                 receipts, attempts, disturbed>>

-----------------------------------------------------------------------------
(* Evaluation and reconciliation. *)

\* The vault denies the split, or the evaluator is unknown: execute raises and
\* the reservation stays.
RefuseSplit(w) ==
  /\ At(w, "evaluate")
  /\ Raise(w)
  /\ disturbed' = disturbed \cup {Exp(w)}
  /\ UNCHANGED <<reservations, ledgerVars, receipts, attempts>>

\* Timeouts, missing artifacts, memory and evaluator errors are outcomes too.
Evaluate(w) ==
  /\ At(w, "evaluate")
  /\ \E kind \in Outcomes, usage \in Usages :
       task' = [task EXCEPT ![w].pc = "reconcile", ![w].record.kind = kind,
                            ![w].record.usage = usage]
  /\ UNCHANGED <<reservations, ledgerVars, receipts, attempts, disturbed>>

\* Mutant: an overrun leaves the output without a kind.
ReconcileLosingKind(w) ==
  /\ At(w, "reconcile")
  /\ ReconcileResources(Exp(w), Mine(w).usage)
  /\ task' = [task EXCEPT ![w].pc = "open",
                ![w].record.kind = IF reservations'[Exp(w)].over # {}
                                   THEN "NONE" ELSE @]
  /\ UNCHANGED <<ledgerVars, receipts, attempts, disturbed>>

\* The reconciliation returned is the stored one; an overrun replaces the output.
Reconcile(w) ==
  /\ At(w, "reconcile")
  /\ ReconcileResources(Exp(w), Mine(w).usage)
  /\ task' = [task EXCEPT ![w].pc = "open",
                ![w].record.kind = IF reservations'[Exp(w)].over # {}
                                   THEN "BUDGET_EXHAUSTED" ELSE @]
  /\ UNCHANGED <<ledgerVars, receipts, attempts, disturbed>>

ReconcileRaises(w) ==
  /\ At(w, "reconcile")
  /\ ReconcileConflict(Exp(w), Mine(w).usage)
  /\ Raise(w)
  /\ UNCHANGED <<reservations, ledgerVars, receipts, attempts, disturbed>>

-----------------------------------------------------------------------------
(* _record: the receipt file first, then the evidence row and its graph. *)

\* Mutant: the file is opened for writing whether it exists or not.
OpenReceiptTruncating(w) ==
  /\ At(w, "open")
  /\ receipts' = [receipts EXCEPT ![Exp(w)] = Torn]
  /\ Goto(w, "write")
  /\ UNCHANGED <<reservations, ledgerVars, attempts, disturbed>>

\* write_record finds no file and creates it (O_EXCL), empty until written.
OpenReceipt(w) ==
  /\ At(w, "open")
  /\ receipts[Exp(w)] = NoRecord
  /\ receipts' = [receipts EXCEPT ![Exp(w)] = Torn]
  /\ Goto(w, "write")
  /\ UNCHANGED <<reservations, ledgerVars, attempts, disturbed>>

\* Mutant: an existing file is taken for the receipt.
ReceiptExistsUncompared(w) ==
  /\ At(w, "open")
  /\ receipts[Exp(w)] # NoRecord
  /\ Goto(w, "insert")
  /\ UNCHANGED <<reservations, ledgerVars, receipts, attempts, disturbed>>

ReceiptExists(w) ==
  /\ At(w, "open")
  /\ receipts[Exp(w)] # NoRecord
  /\ IF receipts[Exp(w)] = Mine(w) THEN Goto(w, "insert") ELSE Raise(w)
  /\ UNCHANGED <<reservations, ledgerVars, receipts, attempts, disturbed>>

WriteReceipt(w) ==
  /\ At(w, "write")
  /\ receipts' = [receipts EXCEPT ![Exp(w)] = Mine(w)]
  /\ Goto(w, "insert")
  /\ UNCHANGED <<reservations, ledgerVars, attempts, disturbed>>

\* A failed write removes the file it had created and raises.
WriteFails(w) ==
  /\ At(w, "write")
  /\ receipts' = [receipts EXCEPT ![Exp(w)] = NoRecord]
  /\ disturbed' = disturbed \cup {Exp(w)}
  /\ Raise(w)
  /\ UNCHANGED <<reservations, ledgerVars, attempts>>

\* receipt_id is the key and experiment_id is UNIQUE: the same receipt is
\* accepted again, any other violates the constraint.
InsertEvidence(w) ==
  /\ At(w, "insert")
  /\ \/ /\ evidence[Exp(w)] = NoRecord
        /\ evidence' = [evidence EXCEPT ![Exp(w)] = Mine(w)]
        /\ Goto(w, "node")
     \/ /\ evidence[Exp(w)] # NoRecord
        /\ IF SameReceiptId(evidence[Exp(w)], Mine(w)) THEN Goto(w, "node") ELSE Raise(w)
        /\ UNCHANGED evidence
  /\ UNCHANGED <<reservations, experiments, rejections, nodes, edges, events,
                 receipts, attempts, disturbed>>

AddNode(w) ==
  /\ At(w, "node")
  /\ nodes' = nodes \cup {Exp(w)}
  /\ Goto(w, "edge")
  /\ UNCHANGED <<reservations, experiments, rejections, evidence, edges, events,
                 receipts, attempts, disturbed>>

AddEdge(w) ==
  /\ At(w, "edge")
  /\ edges' = edges \cup {Exp(w)}
  /\ Goto(w, "event")
  /\ UNCHANGED <<reservations, experiments, rejections, evidence, nodes, events,
                 receipts, attempts, disturbed>>

RecordEvent(w) ==
  /\ At(w, "event")
  /\ events' = events \cup {Exp(w)}
  /\ Return(w)
  /\ UNCHANGED <<reservations, experiments, rejections, evidence, nodes, edges,
                 receipts, attempts, disturbed>>

-----------------------------------------------------------------------------

\* The process dies, the coroutine is cancelled or a transaction fails: locals
\* are lost, the ledger and the files stay as they are.
Crash(w) ==
  /\ task[w].pc \in Running
  /\ task' = [task EXCEPT ![w] = Idle]
  /\ disturbed' = disturbed \cup {Exp(w)}
  /\ UNCHANGED <<reservations, ledgerVars, receipts, attempts>>

Step(w) ==
  \/ ReturnExisting(w) \/ NoExisting(w) \/ LoseInsertRace(w)
  \/ ReserveBudget(w) \/ CatchBudgetExceeded(w) \/ RecordRejection(w)
  \/ RefuseSplit(w) \/ Evaluate(w) \/ Reconcile(w) \/ ReconcileRaises(w)
  \/ OpenReceipt(w) \/ ReceiptExists(w) \/ WriteReceipt(w) \/ WriteFails(w)
  \/ InsertEvidence(w) \/ AddNode(w) \/ AddEdge(w) \/ RecordEvent(w)
  \/ Crash(w)

ExecutionNext ==
  \E w \in Workers : Step(w) \/ \E e \in Experiments : Start(w, e)

ExecutionSpec == Init /\ [][ExecutionNext]_vars

-----------------------------------------------------------------------------
(* Properties *)

Locals == [pc : Running \cup Stopped,
           exp : Experiments \cup {"none"},
           record : [attempt : 0..MaxAttempts, kind : Kinds \cup {"NONE"},
                     usage : Usages \cup {Zero}],
           refused : SUBSET Dims]

ExecutionTypeOK ==
  /\ TypeOK
  /\ experiments \subseteq Experiments
  /\ nodes \subseteq Experiments /\ edges \subseteq Experiments
  /\ events \subseteq Experiments
  /\ rejections \in [Experiments -> SUBSET Dims]
  /\ receipts \in [Experiments -> Record \cup {NoRecord, Torn}]
  /\ evidence \in [Experiments -> Record \cup {NoRecord}]
  /\ task \in [Workers -> Locals]
  /\ attempts \in 0..MaxAttempts
  /\ disturbed \subseteq Experiments

Scientific == {e \in Experiments : evidence[e].kind \in Outcomes}

\* Every evidence row is backed by its complete receipt file, byte for byte,
\* whatever crashed and whoever else ran the same experiment: _record writes
\* the file before the row and write_record never replaces one.
ReceiptBacksEvidence ==
  \A e \in Experiments : evidence[e] # NoRecord => receipts[e] = evidence[e]

\* A verdict that counts as science was paid for: its reservation was
\* reconciled with exactly the usage the evidence reports, within budget.  A
\* retry that measured something else can never attach it to this settlement.
ScientificEvidenceIsSettled ==
  \A e \in Scientific :
    /\ reservations[e].status = "RECONCILED"
    /\ reservations[e].over = {}
    /\ reservations[e].actual = evidence[e].usage

\* ReplayEngine.replay verifies a BUDGET_EXHAUSTED receipt from the ledger
\* alone: it must find an overrun reconciliation or a stored rejection.
BudgetFailureIsReplayable ==
  \A e \in Experiments :
    evidence[e].kind = "BUDGET_EXHAUSTED" =>
      \/ reservations[e].over # {} /\ reservations[e].actual = evidence[e].usage
      \/ rejections[e] # {} /\ evidence[e].usage = Zero

\* Everything accepted as science fits the contract's budget together, even
\* when other experiments overran it or died holding a reservation.
ScientificSpendFits ==
  \A d \in Dims :
    Limit[d] > 0 => SumFunction([e \in Scientific |-> evidence[e].usage[d]]) <= Limit[d]

\* Published facts are final: no later step changes an evidence row or a
\* complete receipt file, in particular not the clean-up of a failed write.
PublishedIsFinal ==
  [][\A e \in Experiments :
       /\ evidence[e] # NoRecord => evidence'[e] = evidence[e]
       /\ receipts[e] \notin {NoRecord, Torn} => receipts'[e] = receipts[e]]_vars

\* execute is safe to call again: unless an attempt at the experiment was cut
\* short or two overlapped, a call never raises, and the evidence it returns
\* is linked into the Research Graph.
UndisturbedAttemptsComplete ==
  \A w \in Workers :
    Exp(w) \notin disturbed =>
      /\ ~At(w, "raised")
      /\ At(w, "returned") => /\ evidence[Exp(w)] # NoRecord
                              /\ Exp(w) \in nodes \cap edges \cap events
============================================================================
