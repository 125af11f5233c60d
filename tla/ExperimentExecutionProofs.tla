--------------------- MODULE ExperimentExecutionProofs ---------------------
(***************************************************************************)
(* Proofs about ExperimentExecution, ResourceLedger and BudgetAccount, for *)
(* every number of workers, experiments and dimensions.  The sums behind   *)
(* the budget come last: everything before them holds whatever the budget  *)
(* check decides.                                                          *)
(***************************************************************************)
EXTENDS ExperimentExecution, SumTheorems

-----------------------------------------------------------------------------
(* Type correctness *)

\* States in which the output of the call is known.
Measured == {"reconcile", "open", "write", "insert"}

\* A running call has an experiment and a stamp; one past evaluation a verdict.
GoodTasks ==
  {t \in Locals :
     /\ t.pc \in Running => t.exp \in Experiments /\ t.record.attempt \in 1..MaxAttempts
     /\ t.pc \in Measured => t.record.kind \in Kinds}

TypeInv == ExecutionTypeOK /\ task \in [Workers -> GoodTasks]

LEMMA AtRestType ==
  ASSUME NEW pc \in Stopped, NEW e \in Experiments \cup {"none"}
  PROVE  AtRest(pc, e) \in GoodTasks /\ AtRest(pc, e).pc = pc
<1>1. NoRecord \in [attempt : 0..MaxAttempts, kind : Kinds \cup {"NONE"},
                    usage : Usages \cup {Zero}]
  BY ExecutionAssumption DEF NoRecord
<1>2. AtRest(pc, e) \in Locals /\ AtRest(pc, e).pc = pc
  BY <1>1 DEF AtRest, Locals
<1>3. pc \notin Running /\ pc \notin Measured
  BY DEF Stopped, Running, Measured
<1>4. QED
  BY <1>2, <1>3 DEF GoodTasks

\* The three ways an action moves its own worker keep every task well formed.
LEMMA GotoType ==
  ASSUME task \in [Workers -> GoodTasks], NEW w \in Workers, NEW pc \in Running,
         task[w].pc \in Running, Goto(w, pc),
         pc \in Measured => task[w].record.kind \in Kinds
  PROVE  /\ task' \in [Workers -> GoodTasks]
         /\ task'[w] = [task[w] EXCEPT !.pc = pc]
         /\ \A v \in Workers \ {w} : task'[v] = task[v]
<1> DEFINE t == [task[w] EXCEPT !.pc = pc]
<1>1. task[w] \in GoodTasks
  OBVIOUS
<1>2. t \in Locals
  BY <1>1 DEF GoodTasks, Locals
<1>3. t.pc = pc /\ t.exp = task[w].exp /\ t.record = task[w].record
  BY <1>1 DEF GoodTasks, Locals
<1>4. t \in GoodTasks
  BY <1>1, <1>2, <1>3 DEF GoodTasks
<1>5. task' = [task EXCEPT ![w] = t]
  BY DEF Goto
<1>6. QED
  BY <1>4, <1>5

LEMMA LeaveType ==
  ASSUME task \in [Workers -> GoodTasks], NEW w \in Workers,
         Return(w) \/ Raise(w) \/ task' = [task EXCEPT ![w] = Idle]
  PROVE  /\ task' \in [Workers -> GoodTasks]
         /\ task'[w].pc \in Stopped
         /\ \A v \in Workers \ {w} : task'[v] = task[v]
<1>1. task[w].exp \in Experiments \cup {"none"}
  BY DEF GoodTasks, Locals
<1>2. ASSUME NEW pc \in Stopped, NEW e \in Experiments \cup {"none"}
      PROVE  AtRest(pc, e) \in GoodTasks /\ AtRest(pc, e).pc = pc
  BY <1>2, AtRestType
<1>3. QED
  BY <1>1, <1>2 DEF Return, Raise, Idle, Exp, Stopped

LEMMA ReconciledRowType ==
  ASSUME TypeOK, NEW e \in Experiments, NEW u \in Usages \cup {Zero}, ReconcileResources(e, u)
  PROVE  TypeOK'
  BY DEF TypeOK, Row, RowStatus, ReconcileResources, ReconcileNew, ReconcileAgain, OverrunDims

LEMMA ReservedRowType ==
  ASSUME TypeOK, NEW e \in Experiments, ReserveResources(e)
  PROVE  TypeOK'
  BY DEF TypeOK, Row, RowStatus, ReserveResources, ReserveNew, ReserveAgain

\* What an action reads of its own worker.
LEMMA MineType ==
  ASSUME TypeInv, NEW w \in Workers, task[w].pc \in Running
  PROVE  /\ Exp(w) \in Experiments
         /\ Mine(w).attempt \in 1..MaxAttempts
         /\ Mine(w).usage \in Usages \cup {Zero}
         /\ task[w].refused \subseteq Dims
         /\ task[w].pc \in Measured => Mine(w) \in Record
  BY DEF TypeInv, GoodTasks, Locals, Exp, Mine, Record

LEMMA TypeInit == Init => TypeInv
<1> SUFFICES ASSUME Init PROVE TypeInv
  OBVIOUS
<1>1. Idle \in GoodTasks
  BY AtRestType DEF Idle, Stopped
<1>2. TypeOK
  BY DEF Init, InitReservations, TypeOK, Row, RowStatus, NoRow
<1>3. task \in [Workers -> GoodTasks] /\ task \in [Workers -> Locals]
  BY <1>1 DEF Init, GoodTasks
<1>4. QED
  BY <1>2, <1>3, ExecutionAssumption DEF Init, TypeInv, ExecutionTypeOK

LEMMA TypeStep == TypeInv /\ [ExecutionNext]_vars => TypeInv'
<1> SUFFICES ASSUME TypeInv, [ExecutionNext]_vars PROVE TypeInv'
  OBVIOUS
<1> USE DEF TypeInv, ExecutionTypeOK, At, ledgerVars
<1>0. task' \in [Workers -> GoodTasks] => task' \in [Workers -> Locals]
  BY DEF GoodTasks
<1>1. ASSUME NEW w \in Workers, NEW e \in Experiments, Start(w, e) PROVE TypeInv'
  <2> DEFINE t == [pc |-> "lookup", exp |-> e, refused |-> {},
                   record |-> [NoRecord EXCEPT !.attempt = attempts + 1]]
  <2>1. attempts + 1 \in 1..MaxAttempts /\ attempts' \in 0..MaxAttempts
    BY <1>1, ExecutionAssumption DEF Start
  <2>2. [NoRecord EXCEPT !.attempt = attempts + 1] =
          [attempt |-> attempts + 1, kind |-> "NONE", usage |-> Zero]
    BY DEF NoRecord
  <2>3. t \in Locals
    BY <2>1, <2>2 DEF Locals, Running
  <2>4. t \in GoodTasks
    BY <2>1, <2>2, <2>3 DEF GoodTasks, Measured
  <2>5. task' \in [Workers -> GoodTasks]
    BY <1>1, <2>4 DEF Start
  <2>6. QED
    BY <1>1, <2>1, <2>5, <1>0 DEF Start, TypeOK
<1>2. ASSUME NEW w \in Workers, ReturnExisting(w) PROVE TypeInv'
  <2>1. Exp(w) \in Experiments
    BY <1>2, MineType DEF ReturnExisting, Running
  <2>2. task' \in [Workers -> GoodTasks]
    BY <1>2, LeaveType DEF ReturnExisting
  <2>3. receipts' \in [Experiments -> Record \cup {NoRecord, Torn}]
    BY <1>2, <2>1 DEF ReturnExisting
  <2>4. QED
    BY <1>2, <2>2, <2>3, <1>0 DEF ReturnExisting, TypeOK
<1>3. ASSUME NEW w \in Workers, NoExisting(w) PROVE TypeInv'
  <2>1. task' \in [Workers -> GoodTasks]
    BY <1>3, GotoType DEF NoExisting, Running, Measured
  <2>2. QED
    BY <1>3, <2>1, <1>0 DEF NoExisting, TypeOK
<1>22. ASSUME NEW w \in Workers, LoseInsertRace(w) PROVE TypeInv'
  BY <1>22, LeaveType, <1>0 DEF LoseInsertRace, TypeOK
<1>4. ASSUME NEW w \in Workers, ReserveBudget(w) PROVE TypeInv'
  <2>1. task' \in [Workers -> GoodTasks]
    BY <1>4, GotoType DEF ReserveBudget, Running, Measured
  <2>2. Exp(w) \in Experiments
    BY <1>4, MineType DEF ReserveBudget, Running
  <2>3. TypeOK'
    BY <1>4, <2>2, ReservedRowType DEF ReserveBudget
  <2>4. QED
    BY <1>4, <2>1, <2>3, <1>0 DEF ReserveBudget
<1>5. ASSUME NEW w \in Workers, CatchBudgetExceeded(w) PROVE TypeInv'
  <2> DEFINE t == [task[w] EXCEPT !.pc = "reject", !.refused = RefusedDims(Exp(w))]
  <2>1. task[w].pc \in Running /\ RefusedDims(Exp(w)) \subseteq Dims
    BY <1>5 DEF CatchBudgetExceeded, Running, RefusedDims
  <2>2. t \in Locals /\ t.pc = "reject" /\ t.exp = task[w].exp /\ t.record = task[w].record
    BY <2>1 DEF GoodTasks, Locals, Running
  <2>3. t \in GoodTasks
    BY <2>1, <2>2 DEF GoodTasks, Measured
  <2>4. task' = [task EXCEPT ![w] = t]
    BY <1>5 DEF CatchBudgetExceeded
  <2>5. QED
    BY <1>5, <2>3, <2>4, <1>0 DEF CatchBudgetExceeded, TypeOK
<1>6. ASSUME NEW w \in Workers, RecordRejection(w) PROVE TypeInv'
  <2>1. Exp(w) \in Experiments /\ task[w].refused \subseteq Dims
    BY <1>6, MineType DEF RecordRejection, Running
  <2>2. rejections' \in [Experiments -> SUBSET Dims]
    BY <1>6, <2>1 DEF RecordRejection
  <2>3. task' \in [Workers -> GoodTasks]
    <3>1. CASE Raise(w)
      BY <3>1, LeaveType
    <3>2. CASE ~Raise(w)
      <4> DEFINE t == [task[w] EXCEPT !.pc = "open", !.record.kind = "BUDGET_EXHAUSTED"]
      <4>1. task[w].pc \in Running /\ task[w] \in GoodTasks
        BY <1>6 DEF RecordRejection, Running
      <4>2. /\ t \in Locals /\ t.pc = "open" /\ t.exp = task[w].exp
            /\ t.record.kind = "BUDGET_EXHAUSTED" /\ t.record.attempt = task[w].record.attempt
        BY <4>1 DEF GoodTasks, Locals, Running, Kinds
      <4>3. t \in GoodTasks
        BY <4>1, <4>2 DEF GoodTasks, Kinds
      <4>4. task' = [task EXCEPT ![w] = t]
        BY <1>6, <3>2 DEF RecordRejection
      <4>5. QED
        BY <4>3, <4>4
    <3>3. QED
      BY <3>1, <3>2
  <2>4. QED
    BY <1>6, <2>2, <2>3, <1>0 DEF RecordRejection, TypeOK
<1>7. ASSUME NEW w \in Workers, RefuseSplit(w) PROVE TypeInv'
  <2>1. Exp(w) \in Experiments
    BY <1>7, MineType DEF RefuseSplit, Running
  <2>2. task' \in [Workers -> GoodTasks]
    BY <1>7, LeaveType DEF RefuseSplit
  <2>3. QED
    BY <1>7, <2>1, <2>2, <1>0 DEF RefuseSplit, TypeOK
<1>8. ASSUME NEW w \in Workers, Evaluate(w) PROVE TypeInv'
  <2>1. PICK kind \in Outcomes, usage \in Usages :
          task' = [task EXCEPT ![w].pc = "reconcile", ![w].record.kind = kind,
                               ![w].record.usage = usage]
    BY <1>8 DEF Evaluate
  <2> DEFINE t == [task[w] EXCEPT !.pc = "reconcile", !.record.kind = kind,
                                  !.record.usage = usage]
  <2>2. task[w].pc \in Running /\ task[w] \in GoodTasks
    BY <1>8 DEF Evaluate, Running
  <2>3. /\ t \in Locals /\ t.pc = "reconcile" /\ t.exp = task[w].exp
        /\ t.record.kind = kind /\ t.record.attempt = task[w].record.attempt
    BY <2>2 DEF GoodTasks, Locals, Running, Kinds
  <2>4. t \in GoodTasks
    BY <2>2, <2>3 DEF GoodTasks, Kinds
  <2>5. task' = [task EXCEPT ![w] = t]
    BY <2>1
  <2>6. QED
    BY <1>8, <2>4, <2>5, <1>0 DEF Evaluate, TypeOK
<1>9. ASSUME NEW w \in Workers, Reconcile(w) PROVE TypeInv'
  <2> DEFINE kind == IF reservations'[Exp(w)].over # {} THEN "BUDGET_EXHAUSTED"
                     ELSE task[w].record.kind
             t == [task[w] EXCEPT !.pc = "open", !.record.kind = kind]
  <2>1. task[w].pc \in Running /\ task[w].pc \in Measured /\ task[w] \in GoodTasks
    BY <1>9 DEF Reconcile, Running, Measured
  <2>2. kind \in Kinds
    BY <2>1 DEF GoodTasks, Kinds
  <2>3. /\ t \in Locals /\ t.pc = "open" /\ t.exp = task[w].exp
        /\ t.record.kind = kind /\ t.record.attempt = task[w].record.attempt
    BY <2>1, <2>2 DEF GoodTasks, Locals, Running
  <2>4. t \in GoodTasks
    BY <2>1, <2>2, <2>3 DEF GoodTasks
  <2>5. task' = [task EXCEPT ![w] = t]
    BY <1>9 DEF Reconcile
  <2>6. TypeOK'
    BY <1>9, <2>1, MineType, ReconciledRowType DEF Reconcile
  <2>7. QED
    BY <1>9, <2>4, <2>5, <2>6, <1>0 DEF Reconcile
<1>10. ASSUME NEW w \in Workers, ReconcileRaises(w) PROVE TypeInv'
  BY <1>10, LeaveType, <1>0 DEF ReconcileRaises, TypeOK
<1>11. ASSUME NEW w \in Workers, OpenReceipt(w) PROVE TypeInv'
  <2>1. task' \in [Workers -> GoodTasks]
    BY <1>11, GotoType DEF OpenReceipt, Running, Measured, GoodTasks
  <2>2. QED
    BY <1>11, <2>1, <1>0 DEF OpenReceipt, TypeOK
<1>12. ASSUME NEW w \in Workers, ReceiptExists(w) PROVE TypeInv'
  <2>1. task' \in [Workers -> GoodTasks]
    BY <1>12, GotoType, LeaveType DEF ReceiptExists, Running, Measured, GoodTasks
  <2>2. QED
    BY <1>12, <2>1, <1>0 DEF ReceiptExists, TypeOK
<1>13. ASSUME NEW w \in Workers, WriteReceipt(w) PROVE TypeInv'
  <2>1. task' \in [Workers -> GoodTasks]
    BY <1>13, GotoType DEF WriteReceipt, Running, Measured, GoodTasks
  <2>2. Mine(w) \in Record
    BY <1>13, MineType DEF WriteReceipt, Running, Measured
  <2>3. QED
    BY <1>13, <2>1, <2>2, <1>0 DEF WriteReceipt, TypeOK
<1>14. ASSUME NEW w \in Workers, WriteFails(w) PROVE TypeInv'
  <2>1. Exp(w) \in Experiments
    BY <1>14, MineType DEF WriteFails, Running
  <2>2. task' \in [Workers -> GoodTasks]
    BY <1>14, LeaveType DEF WriteFails
  <2>3. QED
    BY <1>14, <2>1, <2>2, <1>0 DEF WriteFails, TypeOK
<1>15. ASSUME NEW w \in Workers, InsertEvidence(w) PROVE TypeInv'
  <2>1. task' \in [Workers -> GoodTasks]
    BY <1>15, GotoType, LeaveType DEF InsertEvidence, Running, Measured
  <2>2. Mine(w) \in Record
    BY <1>15, MineType DEF InsertEvidence, Running, Measured
  <2>3. QED
    BY <1>15, <2>1, <2>2, <1>0 DEF InsertEvidence, TypeOK
<1>16. ASSUME NEW w \in Workers, AddNode(w) PROVE TypeInv'
  BY <1>16, GotoType, MineType, <1>0 DEF AddNode, TypeOK, Running, Measured
<1>17. ASSUME NEW w \in Workers, AddEdge(w) PROVE TypeInv'
  BY <1>17, GotoType, MineType, <1>0 DEF AddEdge, TypeOK, Running, Measured
<1>18. ASSUME NEW w \in Workers, RecordEvent(w) PROVE TypeInv'
  BY <1>18, LeaveType, MineType, <1>0 DEF RecordEvent, TypeOK, Running
<1>19. ASSUME NEW w \in Workers, Crash(w) PROVE TypeInv'
  BY <1>19, LeaveType, MineType, <1>0 DEF Crash, TypeOK
<1>20. CASE UNCHANGED vars
  BY <1>20 DEF vars, TypeOK
<1>21. QED
  BY <1>1, <1>2, <1>3, <1>4, <1>5, <1>6, <1>7, <1>8, <1>9, <1>10, <1>11, <1>12, <1>13,
     <1>14, <1>15, <1>16, <1>17, <1>18, <1>19, <1>20, <1>22 DEF ExecutionNext, Step

\* Every reachable state of the executor, the ledger tables and the receipt
\* files is well formed, for any numbers of workers and experiments.
THEOREM ExecutionTypeCorrect == ExecutionSpec => []ExecutionTypeOK
<1>1. TypeInv => ExecutionTypeOK
  BY DEF TypeInv
<1>2. QED
  BY TypeInit, TypeStep, <1>1, PTL DEF ExecutionSpec

-----------------------------------------------------------------------------
(* The receipt file and the evidence row *)

\* A worker between creating and filling a receipt file owns it alone.
OneWriter ==
  \A w \in Workers : At(w, "write") =>
    /\ receipts[Exp(w)] = Torn
    /\ evidence[Exp(w)] = NoRecord
    /\ \A v \in Workers \ {w} : At(v, "write") => Exp(v) # Exp(w)

\* A worker about to insert its evidence finds its own receipt in the file.
Written == \A w \in Workers : At(w, "insert") => receipts[Exp(w)] = Mine(w)

FileInv == ReceiptBacksEvidence /\ OneWriter /\ Written

LEMMA RecordsAreDistinct ==
  ASSUME NEW r \in Record
  PROVE  r # NoRecord /\ r # Torn /\ NoRecord # Torn
<1>1. r.attempt # 0 /\ NoRecord.attempt = 0 /\ Torn.attempt = 0
  BY ExecutionAssumption DEF Record, NoRecord, Torn
<1>2. NoRecord.kind = "NONE" /\ Torn.kind = "TORN"
  BY DEF NoRecord, Torn
<1>3. QED
  BY <1>1, <1>2

\* A worker that holds a verdict holds a record no empty or torn file equals.
LEMMA MineIsARecord ==
  ASSUME TypeInv, NEW w \in Workers, task[w].pc \in Measured
  PROVE  /\ Exp(w) \in Experiments /\ Mine(w) \in Record
         /\ Mine(w) # NoRecord /\ Mine(w) # Torn
<1>1. task[w].pc \in Running
  BY DEF Measured, Running
<1>2. QED
  BY <1>1, MineType, RecordsAreDistinct

\* An action moves one worker only.
LEMMA OneMoves ==
  ASSUME TypeInv, NEW w \in Workers, Step(w) \/ \E e \in Experiments : Start(w, e)
  PROVE  \A v \in Workers \ {w} : task'[v] = task[v]
<1>1. \E t : task' = [task EXCEPT ![w] = t]
  <2>1. ASSUME NEW pc, Goto(w, pc) PROVE \E t : task' = [task EXCEPT ![w] = t]
    BY <2>1 DEF Goto
  <2>2. Return(w) \/ Raise(w) => \E t : task' = [task EXCEPT ![w] = t]
    BY DEF Return, Raise
  <2>3. CASE CatchBudgetExceeded(w) \/ RecordRejection(w) \/ Evaluate(w) \/ Reconcile(w)
             \/ Crash(w) \/ \E e \in Experiments : Start(w, e)
    BY <2>2, <2>3 DEF CatchBudgetExceeded, RecordRejection, Evaluate, Reconcile, Crash, Start
  <2>4. CASE \/ ReturnExisting(w) \/ NoExisting(w) \/ LoseInsertRace(w) \/ ReserveBudget(w)
             \/ RefuseSplit(w) \/ ReconcileRaises(w) \/ OpenReceipt(w) \/ ReceiptExists(w)
    BY <2>1, <2>2, <2>4 DEF ReturnExisting, NoExisting, LoseInsertRace, ReserveBudget,
       RefuseSplit, ReconcileRaises, OpenReceipt, ReceiptExists
  <2>5. CASE \/ WriteReceipt(w) \/ WriteFails(w) \/ InsertEvidence(w) \/ AddNode(w)
             \/ AddEdge(w) \/ RecordEvent(w)
    BY <2>1, <2>2, <2>5 DEF WriteReceipt, WriteFails, InsertEvidence, AddNode, AddEdge,
       RecordEvent
  <2>6. QED
    BY <2>3, <2>4, <2>5 DEF Step
<1>2. task \in [Workers -> GoodTasks]
  BY DEF TypeInv
<1>3. QED
  BY <1>1, <1>2

\* What Goto leaves of its worker.
LEMMA GotoEffect ==
  ASSUME TypeInv, NEW w \in Workers, NEW pc, Goto(w, pc)
  PROVE  task'[w].pc = pc /\ Exp(w)' = Exp(w) /\ Mine(w)' = Mine(w)
<1>1. task \in [Workers -> GoodTasks] /\ task[w] \in Locals
  BY DEF TypeInv, GoodTasks
<1>2. task'[w] = [task[w] EXCEPT !.pc = pc]
  BY <1>1 DEF Goto
<1>3. QED
  BY <1>1, <1>2 DEF Exp, Mine, Locals

\* Where the actions go that touch neither a receipt file nor an evidence row.
LEMMA GoesElsewhere ==
  ASSUME TypeInv, NEW w \in Workers,
         \/ NoExisting(w) \/ LoseInsertRace(w) \/ ReserveBudget(w) \/ CatchBudgetExceeded(w)
         \/ RecordRejection(w) \/ RefuseSplit(w) \/ Evaluate(w) \/ Reconcile(w)
         \/ ReconcileRaises(w) \/ AddNode(w) \/ AddEdge(w) \/ RecordEvent(w) \/ Crash(w)
         \/ \E e \in Experiments : Start(w, e)
  PROVE  /\ task'[w].pc \notin {"write", "insert"}
         /\ UNCHANGED <<receipts, evidence>>
<1>0. task \in [Workers -> GoodTasks] /\ task[w] \in Locals
  BY DEF TypeInv, GoodTasks
<1>1. ASSUME task'[w].pc \in Stopped PROVE task'[w].pc \notin {"write", "insert"}
  BY <1>1 DEF Stopped
<1>2. CASE NoExisting(w) \/ ReserveBudget(w) \/ AddNode(w) \/ AddEdge(w)
  BY <1>2, GotoEffect DEF NoExisting, ReserveBudget, AddNode, AddEdge, ledgerVars
<1>3. CASE \/ LoseInsertRace(w) \/ RefuseSplit(w) \/ ReconcileRaises(w) \/ RecordEvent(w)
           \/ Crash(w)
  BY <1>0, <1>1, <1>3, LeaveType
     DEF LoseInsertRace, RefuseSplit, ReconcileRaises, RecordEvent, Crash, ledgerVars
<1>4. CASE CatchBudgetExceeded(w)
  BY <1>0, <1>4 DEF CatchBudgetExceeded, Locals, ledgerVars
<1>5. CASE RecordRejection(w)
  <2>1. CASE Raise(w)
    BY <1>0, <1>1, <1>5, <2>1, LeaveType DEF RecordRejection
  <2>2. CASE ~Raise(w)
    BY <1>0, <1>5, <2>2 DEF RecordRejection, Locals
  <2>3. QED
    BY <2>1, <2>2
<1>6. CASE Evaluate(w)
  <2>1. PICK kind \in Outcomes, usage \in Usages :
          task' = [task EXCEPT ![w].pc = "reconcile", ![w].record.kind = kind,
                               ![w].record.usage = usage]
    BY <1>6 DEF Evaluate
  <2>2. task'[w] = [task[w] EXCEPT !.pc = "reconcile", !.record.kind = kind,
                                   !.record.usage = usage]
    BY <1>0, <2>1
  <2>3. task'[w].pc = "reconcile"
    BY <1>0, <2>2 DEF Locals
  <2>4. QED
    BY <1>6, <2>3 DEF Evaluate, ledgerVars
<1>7. CASE Reconcile(w)
  BY <1>0, <1>7 DEF Reconcile, Locals, ledgerVars
<1>8. CASE \E e \in Experiments : Start(w, e)
  BY <1>0, <1>8 DEF Start
<1>9. QED
  BY <1>2, <1>3, <1>4, <1>5, <1>6, <1>7, <1>8

\* Nothing happens to files and rows while a worker moves elsewhere.
LEMMA FileInvAway ==
  ASSUME FileInv, NEW w \in Workers, UNCHANGED <<receipts, evidence>>,
         \A v \in Workers \ {w} : task'[v] = task[v],
         task'[w].pc \notin {"write", "insert"}
  PROVE  FileInv'
<1>1. ReceiptBacksEvidence'
  BY DEF FileInv, ReceiptBacksEvidence
<1>2. OneWriter'
  BY DEF FileInv, OneWriter, At, Exp
<1>3. Written'
  BY DEF FileInv, Written, At, Exp, Mine
<1>4. QED
  BY <1>1, <1>2, <1>3 DEF FileInv

LEMMA FileInit == Init => FileInv
  BY DEF Init, FileInv, ReceiptBacksEvidence, OneWriter, Written, At, Idle, AtRest

LEMMA FileStep == TypeInv /\ FileInv /\ [ExecutionNext]_vars => FileInv'
<1> SUFFICES ASSUME TypeInv, FileInv, [ExecutionNext]_vars PROVE FileInv'
  OBVIOUS
<1>0. /\ receipts \in [Experiments -> Record \cup {NoRecord, Torn}]
      /\ evidence \in [Experiments -> Record \cup {NoRecord}]
  BY DEF TypeInv, ExecutionTypeOK
<1>1. CASE UNCHANGED vars
  BY <1>1 DEF vars, ledgerVars, FileInv, ReceiptBacksEvidence, OneWriter, Written, At, Exp, Mine
<1>2. ASSUME NEW w \in Workers, Step(w) \/ \E e \in Experiments : Start(w, e) PROVE FileInv'
  <2>0. \A v \in Workers \ {w} : task'[v] = task[v]
    BY <1>2, OneMoves
  <2> DEFINE e == Exp(w)
  <2>1. CASE ReturnExisting(w)
    <3>1. e \in Experiments
      BY <2>1, MineType DEF ReturnExisting, At, Running
    <3>2. receipts[e] = evidence[e]
      BY <2>1, <3>1 DEF FileInv, ReceiptBacksEvidence, ReturnExisting
    <3>3. UNCHANGED <<receipts, evidence>>
      BY <1>0, <2>1, <3>1, <3>2 DEF ReturnExisting, ledgerVars
    <3>4. task'[w].pc \notin {"write", "insert"}
      BY <2>1, LeaveType DEF ReturnExisting, Stopped, TypeInv
    <3>5. QED
      BY <2>0, <3>3, <3>4, FileInvAway
  <2>2. CASE OpenReceipt(w)
    <3>1. /\ e \in Experiments /\ receipts[e] = NoRecord /\ UNCHANGED evidence
          /\ receipts' = [receipts EXCEPT ![e] = Torn]
      BY <2>2, MineIsARecord DEF OpenReceipt, At, Measured, ledgerVars
    <3>2. task'[w].pc = "write" /\ Exp(w)' = e
      BY <2>2, GotoEffect DEF OpenReceipt
    <3>3. evidence[e] = NoRecord /\ Torn # NoRecord
      BY <1>0, <3>1 DEF FileInv, ReceiptBacksEvidence, NoRecord, Torn
    <3>4. \A v \in Workers \ {w} : At(v, "write") \/ At(v, "insert") => Exp(v) # e
      BY <3>1, <3>3, MineIsARecord DEF FileInv, OneWriter, Written, At, Measured
    <3>5. ReceiptBacksEvidence'
      BY <1>0, <3>1, <3>3 DEF FileInv, ReceiptBacksEvidence
    <3>6. OneWriter'
      BY <1>0, <2>0, <3>1, <3>2, <3>3, <3>4 DEF FileInv, OneWriter, At, Exp
    <3>7. Written'
      BY <1>0, <2>0, <3>1, <3>2, <3>4 DEF FileInv, Written, At, Exp, Mine
    <3>8. QED
      BY <3>5, <3>6, <3>7 DEF FileInv
  <2>3. CASE ReceiptExists(w)
    <3>1. UNCHANGED <<receipts, evidence>>
      BY <2>3 DEF ReceiptExists, ledgerVars
    <3>2. CASE receipts[e] = Mine(w)
      <4>1. task'[w].pc = "insert" /\ Exp(w)' = Exp(w) /\ Mine(w)' = Mine(w)
        BY <2>3, <3>2, GotoEffect DEF ReceiptExists
      <4>2. ReceiptBacksEvidence'
        BY <3>1 DEF FileInv, ReceiptBacksEvidence
      <4>3. OneWriter'
        BY <2>0, <3>1, <4>1 DEF FileInv, OneWriter, At, Exp
      <4>4. Written'
        BY <2>0, <3>1, <3>2, <4>1 DEF FileInv, Written, At, Exp, Mine
      <4>5. QED
        BY <4>2, <4>3, <4>4 DEF FileInv
    <3>3. CASE receipts[e] # Mine(w)
      <4>1. task'[w].pc \notin {"write", "insert"}
        BY <2>3, <3>3, LeaveType DEF ReceiptExists, Stopped, TypeInv
      <4>2. QED
        BY <2>0, <3>1, <4>1, FileInvAway
    <3>4. QED
      BY <3>2, <3>3
  <2>4. CASE WriteReceipt(w)
    <3>1. /\ e \in Experiments /\ Mine(w) # Torn /\ UNCHANGED evidence
          /\ receipts' = [receipts EXCEPT ![e] = Mine(w)]
      BY <2>4, MineIsARecord DEF WriteReceipt, At, Measured, ledgerVars
    <3>2. receipts[e] = Torn /\ evidence[e] = NoRecord
      BY <2>4 DEF WriteReceipt, FileInv, OneWriter
    <3>3. task'[w].pc = "insert" /\ Exp(w)' = Exp(w) /\ Mine(w)' = Mine(w)
      BY <2>4, GotoEffect DEF WriteReceipt
    <3>4. \A v \in Workers \ {w} : At(v, "write") \/ At(v, "insert") => Exp(v) # e
      BY <2>4, <3>2, MineIsARecord DEF WriteReceipt, FileInv, OneWriter, Written, At, Measured
    <3>5. ReceiptBacksEvidence'
      BY <1>0, <3>1, <3>2 DEF FileInv, ReceiptBacksEvidence
    <3>6. OneWriter'
      BY <1>0, <2>0, <3>1, <3>3, <3>4 DEF FileInv, OneWriter, At, Exp
    <3>7. Written'
      BY <1>0, <2>0, <3>1, <3>3, <3>4 DEF FileInv, Written, At, Exp, Mine
    <3>8. QED
      BY <3>5, <3>6, <3>7 DEF FileInv
  <2>5. CASE WriteFails(w)
    <3>1. /\ e \in Experiments /\ UNCHANGED evidence
          /\ receipts' = [receipts EXCEPT ![e] = NoRecord]
      BY <2>5, MineIsARecord DEF WriteFails, At, Measured, ledgerVars
    <3>2. receipts[e] = Torn /\ evidence[e] = NoRecord
      BY <2>5 DEF WriteFails, FileInv, OneWriter
    <3>3. task'[w].pc \notin {"write", "insert"}
      BY <2>5, LeaveType DEF WriteFails, Stopped, TypeInv
    <3>4. \A v \in Workers \ {w} : At(v, "write") \/ At(v, "insert") => Exp(v) # e
      BY <2>5, <3>2, MineIsARecord DEF WriteFails, FileInv, OneWriter, Written, At, Measured
    <3>5. ReceiptBacksEvidence'
      BY <1>0, <3>1, <3>2 DEF FileInv, ReceiptBacksEvidence
    <3>6. OneWriter'
      BY <1>0, <2>0, <3>1, <3>3, <3>4 DEF FileInv, OneWriter, At, Exp
    <3>7. Written'
      BY <1>0, <2>0, <3>1, <3>3, <3>4 DEF FileInv, Written, At, Exp, Mine
    <3>8. QED
      BY <3>5, <3>6, <3>7 DEF FileInv
  <2>6. CASE InsertEvidence(w)
    <3>1. /\ e \in Experiments /\ UNCHANGED receipts /\ Mine(w) # Torn
          /\ evidence' \in {evidence, [evidence EXCEPT ![e] = Mine(w)]}
      BY <2>6, MineIsARecord DEF InsertEvidence, At, Measured
    <3>2. receipts[e] = Mine(w)
      BY <2>6 DEF InsertEvidence, FileInv, Written
    <3>3. task'[w].pc \notin {"write", "insert"}
      BY <2>6, GotoEffect, LeaveType DEF InsertEvidence, Stopped, TypeInv
    <3>4. \A v \in Workers \ {w} : At(v, "write") => Exp(v) # e
      BY <3>1, <3>2 DEF FileInv, OneWriter
    <3>5. ReceiptBacksEvidence'
      BY <1>0, <3>1, <3>2 DEF FileInv, ReceiptBacksEvidence
    <3>6. OneWriter'
      <4> SUFFICES ASSUME NEW v \in Workers, At(v, "write")'
                   PROVE  /\ receipts'[Exp(v)'] = Torn /\ evidence'[Exp(v)'] = NoRecord
                          /\ \A u \in Workers \ {v} : At(u, "write")' => Exp(u)' # Exp(v)'
        BY DEF OneWriter
      <4>1. v # w /\ At(v, "write") /\ Exp(v)' = Exp(v)
        BY <2>0, <3>3 DEF At, Exp
      <4>2. evidence'[Exp(v)] = evidence[Exp(v)]
        <5>1. Exp(v) \in Experiments /\ Exp(v) # e
          BY <3>4, <4>1, MineIsARecord DEF At, Measured
        <5>2. CASE evidence' = evidence
          BY <5>2
        <5>3. CASE evidence' = [evidence EXCEPT ![e] = Mine(w)]
          BY <1>0, <5>1, <5>3
        <5>4. QED
          BY <3>1, <5>2, <5>3
      <4>3. \A u \in Workers : At(u, "write")' => At(u, "write") /\ Exp(u)' = Exp(u)
        BY <2>0, <3>3 DEF At, Exp
      <4>4. /\ receipts[Exp(v)] = Torn /\ evidence[Exp(v)] = NoRecord
            /\ \A u \in Workers \ {v} : At(u, "write") => Exp(u) # Exp(v)
        BY <4>1 DEF FileInv, OneWriter
      <4>5. \A u \in Workers \ {v} : At(u, "write")' => Exp(u)' # Exp(v)'
        BY <4>1, <4>3, <4>4
      <4>6. receipts'[Exp(v)'] = Torn /\ evidence'[Exp(v)'] = NoRecord
        BY <3>1, <4>1, <4>2, <4>4
      <4>7. QED
        BY <4>5, <4>6
    <3>7. Written'
      BY <1>0, <2>0, <3>1, <3>3 DEF FileInv, Written, At, Exp, Mine
    <3>8. QED
      BY <3>5, <3>6, <3>7 DEF FileInv
  <2>7. CASE ~\/ ReturnExisting(w) \/ OpenReceipt(w) \/ ReceiptExists(w)
              \/ WriteReceipt(w) \/ WriteFails(w) \/ InsertEvidence(w)
    BY <1>2, <2>0, <2>7, GoesElsewhere, FileInvAway DEF Step
  <2>8. QED
    BY <2>1, <2>2, <2>3, <2>4, <2>5, <2>6, <2>7
<1>3. QED
  BY <1>1, <1>2 DEF ExecutionNext

\* However many calls of execute run, crash and retry, every evidence row in
\* the ledger has its complete, identical receipt file: what a receipt says
\* can be audited without the ledger, and the other way round.
THEOREM ReceiptAlwaysBacksEvidence == ExecutionSpec => []ReceiptBacksEvidence
<1>1. FileInv => ReceiptBacksEvidence
  BY DEF FileInv
<1>2. QED
  BY TypeInit, TypeStep, FileInit, FileStep, <1>1, PTL DEF ExecutionSpec

-----------------------------------------------------------------------------
(* The verdict and the budget rows behind it *)

\* The ledger rows an auditor needs for a record r: the settlement of a
\* scientific verdict, the overrun or the rejection of a budget failure.
Covers(row, rejected, r) ==
  /\ r.kind \in Outcomes =>
       row.status = "RECONCILED" /\ row.over = {} /\ row.actual = r.usage
  /\ r.kind = "BUDGET_EXHAUSTED" =>
       (row.over # {} /\ row.actual = r.usage) \/ (rejected # {} /\ r.usage = Zero)

\* What the locals of a running call say about the ledger.
Informed(row, rejected, t) ==
  /\ t.pc = "reject" => t.refused # {}
  /\ t.pc \in {"lookup", "reserve", "reject"} => t.record.usage = Zero
  /\ t.pc = "reconcile" => t.record.kind \in Outcomes
  /\ t.pc \in {"open", "write", "insert"} => Covers(row, rejected, t.record)

CleanUntilSettled ==
  \A e \in Experiments : reservations[e].status # "RECONCILED" => reservations[e].over = {}

CoveredEvidence ==
  \A e \in Experiments :
    evidence[e] # NoRecord => Covers(reservations[e], rejections[e], evidence[e])

InformedWorkers ==
  \A w \in Workers :
    task[w].pc \in Running => Informed(reservations[Exp(w)], rejections[Exp(w)], task[w])

PaidInv == CleanUntilSettled /\ CoveredEvidence /\ InformedWorkers

\* Settled rows stay, rejections stay: what covers a record goes on covering it.
LEMMA LedgerGrows ==
  ASSUME TypeInv, CleanUntilSettled, NEW w \in Workers,
         Step(w) \/ \E e \in Experiments : Start(w, e)
  PROVE  /\ \A e \in Experiments : reservations[e].status = "RECONCILED"
                                     => reservations'[e] = reservations[e]
         /\ \A e \in Experiments : rejections[e] # {} => rejections'[e] # {}
         /\ CleanUntilSettled'
<1>0. reservations \in [Experiments -> Row] /\ rejections \in [Experiments -> SUBSET Dims]
  BY DEF TypeInv, ExecutionTypeOK, TypeOK
<1>1. CASE ReserveBudget(w)
  BY <1>0, <1>1 DEF ReserveBudget, ReserveResources, ReserveNew, ReserveAgain, ledgerVars,
     CleanUntilSettled, Row
<1>2. CASE Reconcile(w)
  BY <1>0, <1>2 DEF Reconcile, ReconcileResources, ReconcileNew, ReconcileAgain, ledgerVars,
     CleanUntilSettled, Row
<1>3. CASE RecordRejection(w)
  BY <1>0, <1>3 DEF RecordRejection, CleanUntilSettled
<1>4. CASE ~(ReserveBudget(w) \/ Reconcile(w) \/ RecordRejection(w))
  <2>1. UNCHANGED <<reservations, rejections>>
    BY <1>4 DEF Step, ReturnExisting, NoExisting, LoseInsertRace, CatchBudgetExceeded,
       RefuseSplit, Evaluate, ReconcileRaises, OpenReceipt, ReceiptExists, WriteReceipt,
       WriteFails, InsertEvidence, AddNode, AddEdge, RecordEvent, Crash, Start, ledgerVars
  <2>2. QED
    BY <2>1 DEF CleanUntilSettled
<1>5. QED
  BY <1>1, <1>2, <1>3, <1>4

LEMMA CoversStays ==
  ASSUME NEW row, NEW newRow, NEW rejected, NEW newRejected, NEW r,
         row.status # "RECONCILED" => row.over = {},
         row.status = "RECONCILED" => newRow = row,
         rejected # {} => newRejected # {},
         Covers(row, rejected, r)
  PROVE  Covers(newRow, newRejected, r)
  BY DEF Covers

\* A step that leaves the acting worker informed, and adds only covered
\* evidence, preserves the invariant.
LEMMA PaidInvMoves ==
  ASSUME TypeInv, PaidInv, NEW w \in Workers,
         Step(w) \/ \E e \in Experiments : Start(w, e),
         task'[w].pc \in Running =>
           Informed(reservations'[Exp(w)'], rejections'[Exp(w)'], task'[w]),
         \A e \in Experiments :
           \/ evidence'[e] = evidence[e]
           \/ Covers(reservations'[e], rejections'[e], evidence'[e])
  PROVE  PaidInv'
<1>1. /\ \A e \in Experiments : reservations[e].status = "RECONCILED"
                                => reservations'[e] = reservations[e]
      /\ \A e \in Experiments : rejections[e] # {} => rejections'[e] # {}
      /\ CleanUntilSettled'
  BY LedgerGrows DEF PaidInv
<1>2. ASSUME NEW e \in Experiments, NEW r, Covers(reservations[e], rejections[e], r)
      PROVE  Covers(reservations'[e], rejections'[e], r)
  BY <1>1, <1>2, CoversStays DEF PaidInv, CleanUntilSettled
<1>3. CoveredEvidence'
  BY <1>2 DEF PaidInv, CoveredEvidence
<1>4. ASSUME NEW v \in Workers, task'[v].pc \in Running
      PROVE  Informed(reservations'[Exp(v)'], rejections'[Exp(v)'], task'[v])
  <2>1. CASE v = w
    BY <1>4, <2>1
  <2>2. CASE v # w
    <3>1. task'[v] = task[v] /\ Exp(v)' = Exp(v)
      BY <2>2, OneMoves DEF Exp
    <3>2. task[v].pc \in Running /\ Exp(v) \in Experiments
      BY <1>4, <3>1, MineType
    <3>3. Informed(reservations[Exp(v)], rejections[Exp(v)], task[v])
      BY <3>2 DEF PaidInv, InformedWorkers
    <3>4. QED
      BY <1>2, <3>1, <3>2, <3>3 DEF Informed
  <2>3. QED
    BY <2>1, <2>2
<1>5. InformedWorkers'
  BY <1>4 DEF InformedWorkers
<1>6. QED
  BY <1>1, <1>3, <1>5 DEF PaidInv

LEMMA PaidInit == Init => PaidInv
<1> SUFFICES ASSUME Init PROVE PaidInv
  OBVIOUS
<1>1. CleanUntilSettled
  BY DEF Init, InitReservations, NoRow, CleanUntilSettled
<1>2. CoveredEvidence
  BY DEF Init, CoveredEvidence
<1>3. InformedWorkers
  BY DEF Init, InformedWorkers, Idle, AtRest, Running
<1>4. QED
  BY <1>1, <1>2, <1>3 DEF PaidInv

\* Which actions end the call, and which leave the evidence table alone.
LEMMA CallsThatEnd ==
  ASSUME TypeInv, NEW w \in Workers,
         \/ ReturnExisting(w) \/ LoseInsertRace(w) \/ RefuseSplit(w) \/ ReconcileRaises(w)
         \/ WriteFails(w) \/ RecordEvent(w) \/ Crash(w)
  PROVE  task'[w].pc \notin Running /\ UNCHANGED evidence
<1>1. task'[w].pc \in Stopped
  BY LeaveType DEF TypeInv, ReturnExisting, LoseInsertRace, RefuseSplit, ReconcileRaises,
     WriteFails, RecordEvent, Crash
<1>2. UNCHANGED evidence
  BY DEF ReturnExisting, LoseInsertRace, RefuseSplit, ReconcileRaises, WriteFails,
     RecordEvent, Crash, ledgerVars
<1>3. QED
  BY <1>1, <1>2 DEF Stopped, Running

LEMMA PaidStep == TypeInv /\ FileInv /\ PaidInv /\ [ExecutionNext]_vars => PaidInv'
<1> SUFFICES ASSUME TypeInv, FileInv, PaidInv, [ExecutionNext]_vars PROVE PaidInv'
  OBVIOUS
<1>1. CASE UNCHANGED vars
  BY <1>1 DEF vars, ledgerVars, PaidInv, CleanUntilSettled, CoveredEvidence, InformedWorkers, Exp
<1>2. ASSUME NEW w \in Workers, Step(w) \/ \E e \in Experiments : Start(w, e) PROVE PaidInv'
  <2> DEFINE row == reservations'[Exp(w)']
             rejected == rejections'[Exp(w)']
             Ready == task'[w].pc \in Running => Informed(row, rejected, task'[w])
  <2>0. task \in [Workers -> GoodTasks] /\ task[w] \in Locals
    BY DEF TypeInv, GoodTasks
  <2>1. ASSUME Ready, UNCHANGED evidence PROVE PaidInv'
    BY <1>2, <2>1, PaidInvMoves
  <2>2. task[w].pc \in Running =>
          /\ Exp(w) \in Experiments
          /\ Informed(reservations[Exp(w)], rejections[Exp(w)], task[w])
    BY MineType DEF PaidInv, InformedWorkers
  <2>3. CASE \/ ReturnExisting(w) \/ LoseInsertRace(w) \/ RefuseSplit(w) \/ ReconcileRaises(w)
             \/ WriteFails(w) \/ RecordEvent(w) \/ Crash(w)
    BY <2>1, <2>3, CallsThatEnd
  <2>4. CASE \E e \in Experiments : Start(w, e)
    <3>1. PICK e \in Experiments : Start(w, e)
      BY <2>4
    <3>2. task'[w].pc = "lookup" /\ task'[w].record.usage = Zero
      BY <2>0, <3>1 DEF Start, NoRecord
    <3>3. UNCHANGED evidence
      BY <3>1 DEF Start
    <3>4. QED
      BY <2>1, <3>2, <3>3 DEF Informed
  <2>5. CASE NoExisting(w) \/ ReserveBudget(w) \/ AddNode(w) \/ AddEdge(w)
    <3>1. PICK pc \in {"reserve", "evaluate", "edge", "event"} :
            /\ Goto(w, pc)
            /\ pc = "reserve" => At(w, "lookup")
      BY <2>5 DEF NoExisting, ReserveBudget, AddNode, AddEdge
    <3>2. task'[w].pc = pc /\ Mine(w)' = Mine(w)
      BY <3>1, GotoEffect
    <3>3. pc = "reserve" => task'[w].record.usage = Zero
      BY <2>2, <3>1, <3>2 DEF Informed, At, Running, Mine
    <3>4. UNCHANGED evidence
      BY <2>5, GoesElsewhere
    <3>5. QED
      BY <2>1, <3>2, <3>3, <3>4 DEF Informed
  <2>6. CASE CatchBudgetExceeded(w)
    <3>1. /\ task'[w].pc = "reject" /\ task'[w].record = task[w].record
          /\ task'[w].refused = RefusedDims(Exp(w))
      BY <2>0, <2>6 DEF CatchBudgetExceeded, Locals
    <3>2. task'[w].refused # {}
      BY <2>6, <3>1 DEF CatchBudgetExceeded, Refused
    <3>3. task'[w].record.usage = Zero
      BY <2>2, <2>6, <3>1 DEF CatchBudgetExceeded, Informed, At, Running
    <3>4. UNCHANGED evidence
      BY <2>6, GoesElsewhere
    <3>5. QED
      BY <2>1, <3>1, <3>2, <3>3, <3>4 DEF Informed
  <2>7. CASE RecordRejection(w)
    <3>0. UNCHANGED evidence
      BY <2>7, GoesElsewhere
    <3>1. CASE Raise(w)
      <4>1. task'[w].pc \notin Running
        BY <3>1, <2>0, LeaveType DEF Stopped, Running
      <4>2. QED
        BY <2>1, <3>0, <4>1
    <3>2. CASE ~Raise(w)
      <4>1. /\ task'[w].pc = "open" /\ task'[w].record.kind = "BUDGET_EXHAUSTED"
            /\ task'[w].record.usage = task[w].record.usage /\ Exp(w)' = Exp(w)
            /\ rejections' = [rejections EXCEPT ![Exp(w)] = task[w].refused]
        BY <2>0, <2>7, <3>2 DEF RecordRejection, Locals, Exp
      <4>2. task[w].refused # {} /\ task[w].record.usage = Zero
        BY <2>2, <2>7 DEF RecordRejection, Informed, At, Running
      <4>3. rejections \in [Experiments -> SUBSET Dims] /\ Exp(w) \in Experiments
        BY <2>2, <2>7 DEF TypeInv, ExecutionTypeOK, RecordRejection, At, Running
      <4>4. rejected # {}
        BY <4>1, <4>2, <4>3
      <4>5. Covers(row, rejected, task'[w].record)
        BY <4>1, <4>2, <4>4, ExecutionAssumption DEF Covers
      <4>6. QED
        BY <2>1, <3>0, <4>1, <4>5 DEF Informed
    <3>3. QED
      BY <3>1, <3>2
  <2>8. CASE Evaluate(w)
    <3>1. PICK kind \in Outcomes, usage \in Usages :
            task' = [task EXCEPT ![w].pc = "reconcile", ![w].record.kind = kind,
                                 ![w].record.usage = usage]
      BY <2>8 DEF Evaluate
    <3> DEFINE t == [task[w] EXCEPT !.pc = "reconcile", !.record.kind = kind,
                                    !.record.usage = usage]
    <3>2. t.pc = "reconcile" /\ t.record.kind = kind
      BY <2>0 DEF Locals
    <3>3. task'[w] = t
      BY <2>0, <3>1
    <3>4. UNCHANGED evidence
      BY <2>8, GoesElsewhere
    <3>5. Informed(row, rejected, t)
      BY <3>2 DEF Informed
    <3>6. QED
      BY <2>1, <3>3, <3>4, <3>5
  <2>9. CASE Reconcile(w)
    <3>1. /\ Exp(w) \in Experiments /\ Mine(w).kind \in Outcomes
      BY <2>2, <2>9 DEF Reconcile, Informed, At, Running, Mine
    <3>2. reservations \in [Experiments -> Row]
      BY DEF TypeInv, ExecutionTypeOK, TypeOK
    <3>3. reservations'[Exp(w)].status = "RECONCILED" /\ reservations'[Exp(w)].actual = Mine(w).usage
      BY <2>9, <3>1, <3>2 DEF Reconcile, ReconcileResources, ReconcileNew, ReconcileAgain, Row
    <3>4. /\ task'[w].pc = "open" /\ Exp(w)' = Exp(w)
          /\ task'[w].record.usage = Mine(w).usage
          /\ task'[w].record.kind = IF reservations'[Exp(w)].over # {}
                                    THEN "BUDGET_EXHAUSTED" ELSE Mine(w).kind
      BY <2>0, <2>9 DEF Reconcile, Locals, Exp, Mine
    <3>5. Covers(row, rejected, task'[w].record)
      BY <3>1, <3>3, <3>4, ExecutionAssumption DEF Covers
    <3>6. UNCHANGED evidence
      BY <2>9, GoesElsewhere
    <3>7. QED
      BY <2>1, <3>4, <3>5, <3>6 DEF Informed
  <2>10. CASE OpenReceipt(w) \/ ReceiptExists(w) \/ WriteReceipt(w)
    <3>1. UNCHANGED <<evidence, reservations, rejections>>
      BY <2>10 DEF OpenReceipt, ReceiptExists, WriteReceipt, ledgerVars
    <3>2. Raise(w) \/ Goto(w, "write") \/ Goto(w, "insert")
      BY <2>10 DEF OpenReceipt, ReceiptExists, WriteReceipt
    <3>3. CASE Raise(w)
      <4>1. task'[w].pc \notin Running
        BY <3>3, <2>0, LeaveType DEF Stopped, Running
      <4>2. QED
        BY <2>1, <3>1, <4>1
    <3>4. CASE Goto(w, "write") \/ Goto(w, "insert")
      <4>1. task'[w].pc \in {"write", "insert"} /\ Exp(w)' = Exp(w) /\ Mine(w)' = Mine(w)
        BY <3>4, GotoEffect
      <4>2. Covers(reservations[Exp(w)], rejections[Exp(w)], Mine(w))
        BY <2>2, <2>10 DEF OpenReceipt, ReceiptExists, WriteReceipt, At, Running, Informed, Mine
      <4>3. QED
        BY <2>1, <3>1, <4>1, <4>2 DEF Informed, Mine
    <3>5. QED
      BY <3>2, <3>3, <3>4
  <2>11. CASE InsertEvidence(w)
    <3>1. task'[w].pc = "node" \/ task'[w].pc \notin Running
      BY <2>0, <2>11, GotoEffect, LeaveType DEF InsertEvidence, Stopped, Running
    <3>2. Covers(reservations[Exp(w)], rejections[Exp(w)], Mine(w)) /\ Exp(w) \in Experiments
      BY <2>2, <2>11 DEF InsertEvidence, At, Running, Informed, Mine
    <3>3. evidence \in [Experiments -> Record \cup {NoRecord}]
      BY DEF TypeInv, ExecutionTypeOK
    <3>4. UNCHANGED <<reservations, rejections>>
      BY <2>11 DEF InsertEvidence
    <3>5. \A e \in Experiments :
            \/ evidence'[e] = evidence[e]
            \/ Covers(reservations'[e], rejections'[e], evidence'[e])
      BY <2>11, <3>2, <3>3, <3>4 DEF InsertEvidence
    <3>6. Ready
      BY <3>1 DEF Informed
    <3>7. QED
      BY <1>2, <3>5, <3>6, PaidInvMoves
  <2>12. QED
    BY <1>2, <2>3, <2>4, <2>5, <2>6, <2>7, <2>8, <2>9, <2>10, <2>11 DEF Step
<1>3. QED
  BY <1>1, <1>2 DEF ExecutionNext

\* A scientific verdict in the ledger always stands on a settlement of exactly
\* the usage it reports, within budget, whatever was retried or cut short.
THEOREM ScientificEvidenceAlwaysSettled == ExecutionSpec => []ScientificEvidenceIsSettled
<1>1. TypeInv /\ PaidInv => ScientificEvidenceIsSettled
  BY ExecutionAssumption
     DEF TypeInv, ExecutionTypeOK, PaidInv, CoveredEvidence, Covers, Scientific,
         ScientificEvidenceIsSettled, NoRecord
<1>2. QED
  BY TypeInit, TypeStep, FileInit, FileStep, PaidInit, PaidStep, <1>1, PTL DEF ExecutionSpec

\* The replay of a budget failure always finds the ledger row it needs.
THEOREM BudgetFailureAlwaysReplayable == ExecutionSpec => []BudgetFailureIsReplayable
<1>1. TypeInv /\ PaidInv => BudgetFailureIsReplayable
  BY DEF TypeInv, ExecutionTypeOK, PaidInv, CoveredEvidence, Covers,
         BudgetFailureIsReplayable, NoRecord
<1>2. QED
  BY TypeInit, TypeStep, FileInit, FileStep, PaidInit, PaidStep, <1>1, PTL DEF ExecutionSpec

-----------------------------------------------------------------------------
(* Published facts are final *)

Final ==
  \A e \in Experiments :
    /\ evidence[e] # NoRecord => evidence'[e] = evidence[e]
    /\ receipts[e] \notin {NoRecord, Torn} => receipts'[e] = receipts[e]

LEMMA FinalStep == TypeInv /\ FileInv /\ [ExecutionNext]_vars => Final
<1> SUFFICES ASSUME TypeInv, FileInv, [ExecutionNext]_vars PROVE Final
  OBVIOUS
<1>0. /\ receipts \in [Experiments -> Record \cup {NoRecord, Torn}]
      /\ evidence \in [Experiments -> Record \cup {NoRecord}]
  BY DEF TypeInv, ExecutionTypeOK
<1>1. CASE UNCHANGED <<receipts, evidence>>
  BY <1>1 DEF Final
<1>2. ASSUME NEW w \in Workers, OpenReceipt(w) PROVE Final
  BY <1>0, <1>2 DEF OpenReceipt, ledgerVars, Final
<1>3. ASSUME NEW w \in Workers, ReturnExisting(w) PROVE Final
  BY <1>0, <1>3 DEF ReturnExisting, ledgerVars, Final
<1>4. ASSUME NEW w \in Workers, WriteReceipt(w) \/ WriteFails(w) PROVE Final
  <2>1. receipts[Exp(w)] = Torn
    BY <1>4 DEF WriteReceipt, WriteFails, FileInv, OneWriter
  <2>2. QED
    BY <1>0, <1>4, <2>1 DEF WriteReceipt, WriteFails, ledgerVars, Final
<1>5. ASSUME NEW w \in Workers, InsertEvidence(w) PROVE Final
  BY <1>0, <1>5 DEF InsertEvidence, Final
<1>6. ASSUME NEW w \in Workers, ReceiptExists(w) PROVE Final
  BY <1>6 DEF ReceiptExists, ledgerVars, Final
<1>7. ASSUME NEW w \in Workers, Step(w) \/ \E e \in Experiments : Start(w, e) PROVE Final
  BY <1>1, <1>2, <1>3, <1>4, <1>5, <1>6, <1>7, GoesElsewhere DEF Step
<1>8. QED
  BY <1>1, <1>7 DEF ExecutionNext, vars, ledgerVars

\* No later step of any call, crash or failed write changes an evidence row or
\* a complete receipt file.
THEOREM PublishedAlwaysFinal == ExecutionSpec => PublishedIsFinal
<1>1. Final => \A e \in Experiments :
                 /\ evidence[e] # NoRecord => evidence'[e] = evidence[e]
                 /\ receipts[e] \notin {NoRecord, Torn} => receipts'[e] = receipts[e]
  BY DEF Final
<1>2. QED
  BY TypeInit, TypeStep, FileInit, FileStep, FinalStep, <1>1, PTL
     DEF ExecutionSpec, PublishedIsFinal

-----------------------------------------------------------------------------
(* Calling execute again *)

\* The evidence is stored and linked into the Research Graph.
Complete(e) ==
  /\ evidence[e] # NoRecord
  /\ e \in nodes \cap edges \cap events

\* Nothing was published, and in Fresh nothing was paid for either.
Unfiled(e) == receipts[e] = NoRecord /\ evidence[e] = NoRecord

Fresh(e) == reservations[e].status = "NONE" /\ rejections[e] = {} /\ Unfiled(e)

\* How far a call at pc has brought an experiment that no other call disturbed.
Stage(e, pc) ==
  /\ pc = "lookup" => Fresh(e) \/ Complete(e)
  /\ pc \in {"reserve", "reject"} => Fresh(e)
  /\ pc \in {"evaluate", "reconcile"} => reservations[e].status = "RESERVED" /\ Unfiled(e)
  /\ pc = "open" => Unfiled(e)
  /\ pc \in {"write", "insert"} => evidence[e] = NoRecord
  /\ pc \in {"node", "edge", "event"} => evidence[e] # NoRecord
  /\ pc \in {"edge", "event"} => e \in nodes
  /\ pc = "event" => e \in edges

Busy(w, e) == task[w].pc \in Running /\ Exp(w) = e

\* An undisturbed experiment has at most one call about it, as far as its pc
\* says; without one it is untouched or complete.
AttemptInv ==
  \A e \in Experiments \ disturbed :
    /\ \A w \in Workers :
         Busy(w, e) => Stage(e, task[w].pc) /\ \A v \in Workers \ {w} : ~Busy(v, e)
    /\ (\A w \in Workers : ~Busy(w, e)) => Fresh(e) \/ Complete(e)
    /\ \A w \in Workers :
         Exp(w) = e => ~At(w, "raised") /\ (At(w, "returned") => Complete(e))

\* A call writes the rows and the file of its own experiment, and unlinks nothing.
LEMMA OwnRowsOnly ==
  ASSUME TypeInv, NEW w \in Workers, Step(w)
  PROVE  /\ task[w].pc \in Running /\ Exp(w) \in Experiments
         /\ \A x \in Experiments \ {Exp(w)} :
              /\ reservations'[x] = reservations[x] /\ rejections'[x] = rejections[x]
              /\ receipts'[x] = receipts[x] /\ evidence'[x] = evidence[x]
         /\ nodes \subseteq nodes' /\ edges \subseteq edges' /\ events \subseteq events'
         /\ disturbed \subseteq disturbed'
         /\ (Exp(w)' = Exp(w) \/ task'[w].pc = "idle")
<1>0. /\ reservations \in [Experiments -> Row] /\ rejections \in [Experiments -> SUBSET Dims]
      /\ receipts \in [Experiments -> Record \cup {NoRecord, Torn}]
      /\ evidence \in [Experiments -> Record \cup {NoRecord}]
      /\ task \in [Workers -> GoodTasks] /\ task[w] \in Locals
  BY DEF TypeInv, ExecutionTypeOK, TypeOK, GoodTasks
<1>1. task[w].pc \in Running /\ Exp(w) \in Experiments
  <2>1. task[w].pc \in Running
    BY DEF Step, ReturnExisting, NoExisting, LoseInsertRace, ReserveBudget, CatchBudgetExceeded,
       RecordRejection, RefuseSplit, Evaluate, Reconcile, ReconcileRaises, OpenReceipt,
       ReceiptExists, WriteReceipt, WriteFails, InsertEvidence, AddNode, AddEdge, RecordEvent,
       Crash, At, Running
  <2>2. QED
    BY <2>1, MineType
<1>2. \A x \in Experiments \ {Exp(w)} :
         /\ reservations'[x] = reservations[x] /\ rejections'[x] = rejections[x]
  <2>1. CASE ReserveBudget(w) \/ Reconcile(w)
    BY <1>0, <2>1 DEF ReserveBudget, Reconcile, ReserveResources, ReserveNew, ReserveAgain,
       ReconcileResources, ReconcileNew, ReconcileAgain, ledgerVars
  <2>2. CASE RecordRejection(w)
    BY <1>0, <2>2 DEF RecordRejection
  <2>3. CASE ~(ReserveBudget(w) \/ Reconcile(w) \/ RecordRejection(w))
    BY <2>3 DEF Step, ReturnExisting, NoExisting, LoseInsertRace, CatchBudgetExceeded,
       RefuseSplit, Evaluate, ReconcileRaises, OpenReceipt, ReceiptExists, WriteReceipt,
       WriteFails, InsertEvidence, AddNode, AddEdge, RecordEvent, Crash, ledgerVars
  <2>4. QED
    BY <2>1, <2>2, <2>3
<1>3. \A x \in Experiments \ {Exp(w)} :
         /\ receipts'[x] = receipts[x] /\ evidence'[x] = evidence[x]
  <2>1. CASE ReturnExisting(w) \/ OpenReceipt(w) \/ WriteReceipt(w) \/ WriteFails(w)
    BY <1>0, <2>1 DEF ReturnExisting, OpenReceipt, WriteReceipt, WriteFails, ledgerVars
  <2>2. CASE InsertEvidence(w)
    BY <1>0, <2>2 DEF InsertEvidence
  <2>3. CASE ReceiptExists(w)
    BY <2>3 DEF ReceiptExists, ledgerVars
  <2>4. QED
    BY <2>1, <2>2, <2>3, GoesElsewhere DEF Step
<1>4. nodes \subseteq nodes' /\ edges \subseteq edges' /\ events \subseteq events'
      /\ disturbed \subseteq disturbed'
  BY DEF Step, ReturnExisting, NoExisting, LoseInsertRace, ReserveBudget, CatchBudgetExceeded,
     RecordRejection, RefuseSplit, Evaluate, Reconcile, ReconcileRaises, OpenReceipt,
     ReceiptExists, WriteReceipt, WriteFails, InsertEvidence, AddNode, AddEdge, RecordEvent,
     Crash, ledgerVars
<1>5. (Exp(w)' = Exp(w) \/ task'[w].pc = "idle")
  <2>1. CASE Return(w) \/ Raise(w) \/ task' = [task EXCEPT ![w] = Idle]
    BY <1>0, <2>1 DEF Return, Raise, AtRest, Idle, Exp, Locals
  <2>2. ASSUME NEW pc, Goto(w, pc) PROVE Exp(w)' = Exp(w)
    BY <2>2, GotoEffect
  <2>3. CASE RecordRejection(w) \/ CatchBudgetExceeded(w) \/ Reconcile(w)
    BY <1>0, <2>1, <2>3 DEF RecordRejection, CatchBudgetExceeded, Reconcile, Exp, Locals
  <2>4. CASE Evaluate(w)
    BY <1>0, <2>4 DEF Evaluate, Exp, Locals
  <2>5. QED
    BY <2>1, <2>2, <2>3, <2>4 DEF Step, ReturnExisting, NoExisting, LoseInsertRace,
       ReserveBudget, RefuseSplit, ReconcileRaises, OpenReceipt, ReceiptExists, WriteReceipt,
       WriteFails, InsertEvidence, AddNode, AddEdge, RecordEvent, Crash
<1>6. QED
  BY <1>1, <1>2, <1>3, <1>4, <1>5

\* A call that leaves its own experiment in order leaves every one in order.
LEMMA AttemptMoves ==
  ASSUME TypeInv, FileInv, AttemptInv, NEW w \in Workers, Step(w),
         Exp(w) \notin disturbed' =>
           /\ Exp(w)' = Exp(w)
           /\ \/ task'[w].pc \in Running /\ Stage(Exp(w), task[w].pc)'
              \/ task'[w].pc = "returned" /\ Complete(Exp(w))'
  PROVE  AttemptInv'
<1> DEFINE e == Exp(w)
<1>1. /\ task[w].pc \in Running /\ e \in Experiments
      /\ \A x \in Experiments \ {e} :
           /\ reservations'[x] = reservations[x] /\ rejections'[x] = rejections[x]
           /\ receipts'[x] = receipts[x] /\ evidence'[x] = evidence[x]
      /\ nodes \subseteq nodes' /\ edges \subseteq edges' /\ events \subseteq events'
      /\ disturbed \subseteq disturbed'
      /\ (Exp(w)' = e \/ task'[w].pc = "idle")
  BY OwnRowsOnly
<1>2. \A v \in Workers \ {w} : task'[v] = task[v]
  BY OneMoves
<1>3. \A x \in Experiments : evidence[x] # NoRecord => evidence'[x] = evidence[x]
  <2>1. Final
    BY FinalStep DEF ExecutionNext
  <2>2. QED
    BY <2>1 DEF Final
<1>4. \A x \in Experiments : Complete(x) => Complete(x)'
  BY <1>1, <1>3 DEF Complete
<1>5. \A v \in Workers \ {w} : \A x : /\ Busy(v, x)' <=> Busy(v, x)
                                      /\ Exp(v)' = Exp(v)
                                      /\ \A pc : At(v, pc)' <=> At(v, pc)
  BY <1>2 DEF Busy, Exp, At
<1>6. ASSUME NEW x \in Experiments \ disturbed', x = e
      PROVE  /\ \A v \in Workers :
                  Busy(v, x)' => Stage(x, task[v].pc)' /\ \A u \in Workers \ {v} : ~Busy(u, x)'
             /\ (\A v \in Workers : ~Busy(v, x)') => Fresh(x)' \/ Complete(x)'
             /\ \A v \in Workers :
                  Exp(v)' = x => ~At(v, "raised")' /\ (At(v, "returned")' => Complete(x)')
  <2>1. \A v \in Workers \ {w} : ~Busy(v, x)
    BY <1>1, <1>6 DEF AttemptInv, Busy
  <2>2. \A v \in Workers \ {w} : ~Busy(v, x)'
    BY <1>5, <2>1
  <2>3. Exp(w)' = x /\ \/ task'[w].pc \in Running /\ Stage(x, task[w].pc)'
                       \/ task'[w].pc = "returned" /\ Complete(x)'
    BY <1>6
  <2>4. Busy(w, x)' => Stage(x, task[w].pc)'
    BY <2>3 DEF Busy, Running
  <2>5. (\A v \in Workers : ~Busy(v, x)') => Complete(x)'
    BY <2>3 DEF Busy
  <2>6. ASSUME NEW v \in Workers, Exp(v)' = x
        PROVE  ~At(v, "raised")' /\ (At(v, "returned")' => Complete(x)')
    <3>1. CASE v = w
      BY <3>1, <2>3 DEF At, Running
    <3>2. CASE v # w
      BY <3>2, <1>1, <1>4, <1>5, <1>6, <2>6 DEF AttemptInv
    <3>3. QED
      BY <3>1, <3>2
  <2>7. QED
    BY <2>2, <2>4, <2>5, <2>6
<1>7. ASSUME NEW x \in Experiments \ disturbed', x # e
      PROVE  /\ \A v \in Workers :
                  Busy(v, x)' => Stage(x, task[v].pc)' /\ \A u \in Workers \ {v} : ~Busy(u, x)'
             /\ (\A v \in Workers : ~Busy(v, x)') => Fresh(x)' \/ Complete(x)'
             /\ \A v \in Workers :
                  Exp(v)' = x => ~At(v, "raised")' /\ (At(v, "returned")' => Complete(x)')
  <2>1. /\ ~Busy(w, x) /\ ~Busy(w, x)'
        /\ Exp(w)' = x => ~At(w, "raised")' /\ ~At(w, "returned")'
    BY <1>1, <1>7 DEF Busy, Running, At
  <2>2. /\ Fresh(x)' <=> Fresh(x)
        /\ Unfiled(x)' <=> Unfiled(x)
    BY <1>1, <1>7 DEF Fresh, Unfiled
  <2>3. ASSUME NEW v \in Workers, Busy(v, x)'
        PROVE  Stage(x, task[v].pc)' /\ \A u \in Workers \ {v} : ~Busy(u, x)'
    <3>1. Busy(v, x) /\ task'[v] = task[v]
      BY <1>2, <1>5, <2>1, <2>3
    <3>2. Stage(x, task[v].pc) /\ \A u \in Workers \ {v} : ~Busy(u, x)
      BY <3>1, <1>1 DEF AttemptInv
    <3>3. Stage(x, task[v].pc)'
      BY <3>1, <3>2, <2>2, <1>1, <1>4, <1>7 DEF Stage
    <3>4. QED
      BY <3>2, <3>3, <2>1, <1>5
  <2>4. (\A v \in Workers : ~Busy(v, x)') => Fresh(x)' \/ Complete(x)'
    BY <1>1, <1>4, <1>5, <2>1, <2>2 DEF AttemptInv
  <2>5. ASSUME NEW v \in Workers, Exp(v)' = x
        PROVE  ~At(v, "raised")' /\ (At(v, "returned")' => Complete(x)')
    BY <1>1, <1>4, <1>5, <2>1, <2>5 DEF AttemptInv
  <2>6. QED
    BY <2>3, <2>4, <2>5
<1>8. QED
  BY <1>6, <1>7 DEF AttemptInv

LEMMA AttemptStarts ==
  ASSUME TypeInv, AttemptInv, NEW w \in Workers, NEW x \in Experiments, Start(w, x)
  PROVE  AttemptInv'
<1>1. /\ task'[w].pc = "lookup" /\ Exp(w)' = x /\ task[w].pc \in Stopped
      /\ \A v \in Workers \ {w} : task'[v] = task[v]
  BY OneMoves DEF Start, TypeInv, Exp
<1>2. /\ UNCHANGED <<reservations, rejections, receipts, evidence, nodes, edges, events>>
      /\ disturbed \subseteq disturbed'
      /\ x \notin disturbed' => \A v \in Workers \ {w} : ~Busy(v, x)
  BY DEF Start, Busy
<1>3. /\ \A y : (Fresh(y)' <=> Fresh(y)) /\ (Complete(y)' <=> Complete(y))
      /\ \A y, pc : Stage(y, pc) => Stage(y, pc)'
  BY <1>2 DEF Fresh, Complete, Unfiled, Stage
<1>4. \A v \in Workers \ {w} : /\ task'[v] = task[v]
                               /\ \A y : /\ Busy(v, y)' <=> Busy(v, y)
                                         /\ (Exp(v)' = y) <=> (Exp(v) = y)
                               /\ \A pc : At(v, pc)' <=> At(v, pc)
  BY <1>1 DEF Busy, Exp, At
<1>5. /\ \A y : ~Busy(w, y)
      /\ \A y : Busy(w, y)' <=> y = x
      /\ ~At(w, "raised")' /\ ~At(w, "returned")'
  BY <1>1 DEF Busy, Stopped, Running, At
<1>6. ASSUME NEW y \in Experiments \ disturbed'
      PROVE  /\ \A v \in Workers :
                  Busy(v, y)' => Stage(y, task[v].pc)' /\ \A u \in Workers \ {v} : ~Busy(u, y)'
             /\ (\A v \in Workers : ~Busy(v, y)') => Fresh(y)' \/ Complete(y)'
             /\ \A v \in Workers :
                  Exp(v)' = y => ~At(v, "raised")' /\ (At(v, "returned")' => Complete(y)')
  <2>0. y \in Experiments \ disturbed
    BY <1>2
  <2>1. \A v \in Workers :
           Exp(v)' = y => ~At(v, "raised")' /\ (At(v, "returned")' => Complete(y)')
    BY <2>0, <1>3, <1>4, <1>5 DEF AttemptInv
  <2>2. CASE y = x
    <3>1. \A v \in Workers : ~Busy(v, y)
      BY <1>2, <1>5, <2>2
    <3>2. Fresh(y)' \/ Complete(y)'
      BY <2>0, <3>1, <1>3 DEF AttemptInv
    <3>3. Stage(y, task[w].pc)'
      BY <3>2, <1>1 DEF Stage
    <3>4. QED
      BY <2>1, <3>1, <3>2, <3>3, <1>4
  <2>3. CASE y # x
    <3>1. ASSUME NEW v \in Workers, Busy(v, y)'
          PROVE  Stage(y, task[v].pc)' /\ \A u \in Workers \ {v} : ~Busy(u, y)'
      <4>1. v # w /\ Busy(v, y) /\ task'[v] = task[v]
        BY <1>4, <1>5, <2>3, <3>1
      <4>2. Stage(y, task[v].pc) /\ \A u \in Workers \ {v} : ~Busy(u, y)
        BY <2>0, <4>1 DEF AttemptInv
      <4>3. Stage(y, task[v].pc)'
        BY <4>1, <4>2, <1>3
      <4>4. QED
        BY <4>2, <4>3, <1>4, <1>5, <2>3
    <3>2. (\A v \in Workers : ~Busy(v, y)') => Fresh(y)' \/ Complete(y)'
      BY <2>0, <1>3, <1>4, <1>5 DEF AttemptInv
    <3>3. QED
      BY <2>1, <3>1, <3>2
  <2>4. QED
    BY <2>2, <2>3
<1>7. QED
  BY <1>6 DEF AttemptInv

LEMMA AttemptInit == Init => AttemptInv
<1> SUFFICES ASSUME Init PROVE AttemptInv
  OBVIOUS
<1>1. \A w \in Workers : task[w].pc = "idle"
  BY DEF Init, Idle, AtRest
<1>2. \A e \in Experiments : Fresh(e)
  BY DEF Init, InitReservations, NoRow, Fresh, Unfiled
<1>3. QED
  BY <1>1, <1>2 DEF AttemptInv, Busy, Running, At

\* A call that ended was about an experiment.
EndedSomewhere ==
  \A w \in Workers : At(w, "raised") \/ At(w, "returned") => Exp(w) \in Experiments

LEMMA EndedInit == Init => EndedSomewhere
  BY DEF Init, Idle, AtRest, EndedSomewhere, At

LEMMA EndedStep == TypeInv /\ EndedSomewhere /\ [ExecutionNext]_vars => EndedSomewhere'
<1> SUFFICES ASSUME TypeInv, EndedSomewhere, [ExecutionNext]_vars PROVE EndedSomewhere'
  OBVIOUS
<1>1. CASE UNCHANGED vars
  BY <1>1 DEF vars, EndedSomewhere, At, Exp
<1>2. ASSUME NEW w \in Workers, Step(w) \/ \E e \in Experiments : Start(w, e)
      PROVE  EndedSomewhere'
  <2>1. \A v \in Workers \ {w} : task'[v] = task[v]
    BY <1>2, OneMoves
  <2>2. Exp(w)' \in Experiments \/ task'[w].pc = "idle"
    BY <1>2, OwnRowsOnly DEF Start, Exp, TypeInv
  <2>3. QED
    BY <2>1, <2>2 DEF EndedSomewhere, At, Exp
<1>3. QED
  BY <1>1, <1>2 DEF ExecutionNext

LEMMA AttemptStep == TypeInv /\ FileInv /\ AttemptInv /\ [ExecutionNext]_vars => AttemptInv'
<1> SUFFICES ASSUME TypeInv, FileInv, AttemptInv, [ExecutionNext]_vars PROVE AttemptInv'
  OBVIOUS
<1>1. CASE UNCHANGED vars
  BY <1>1 DEF vars, ledgerVars, AttemptInv, Busy, Stage, Fresh, Unfiled, Complete, At, Exp
<1>2. ASSUME NEW w \in Workers, Step(w) PROVE AttemptInv'
  <2> PICK e \in Experiments : e = Exp(w)
    BY <1>2, OwnRowsOnly
  <2> DEFINE Onward == /\ Exp(w)' = e
                       /\ \/ task'[w].pc \in Running /\ Stage(e, task[w].pc)'
                          \/ task'[w].pc = "returned" /\ Complete(e)'
  <2>0. /\ reservations \in [Experiments -> Row] /\ rejections \in [Experiments -> SUBSET Dims]
        /\ receipts \in [Experiments -> Record \cup {NoRecord, Torn}]
        /\ evidence \in [Experiments -> Record \cup {NoRecord}]
        /\ task \in [Workers -> GoodTasks] /\ task[w] \in Locals
    BY DEF TypeInv, ExecutionTypeOK, TypeOK, GoodTasks
  <2>1. task[w].pc \in Running /\ disturbed \subseteq disturbed'
    BY <1>2, OwnRowsOnly
  <2> SUFFICES ASSUME e \notin disturbed' PROVE Onward
    BY <1>2, AttemptMoves
  <2>2. Stage(e, task[w].pc) /\ \A v \in Workers \ {w} : ~(task[v].pc \in Running /\ Exp(v) = e)
    BY <2>1 DEF AttemptInv, Busy
  <2>3. /\ ~LoseInsertRace(w) /\ ~RefuseSplit(w) /\ ~WriteFails(w) /\ ~Crash(w)
    BY <2>2 DEF LoseInsertRace, RefuseSplit, WriteFails, Crash
  <2>4. ASSUME NEW pc \in Running, Goto(w, pc), Stage(e, pc)' PROVE Onward
    BY <2>4, GotoEffect
  <2>5. ASSUME Return(w), Complete(e)' PROVE Onward
    BY <2>0, <2>5 DEF Return, AtRest, Exp
  <2>6. CASE ReturnExisting(w)
    <3>1. evidence[e] # NoRecord /\ Complete(e) /\ receipts[e] = evidence[e]
      BY <2>1, <2>2, <2>6 DEF ReturnExisting, At, Stage, Fresh, Unfiled, FileInv, ReceiptBacksEvidence
    <3>2. Return(w) /\ Complete(e)'
      BY <2>6, <3>1 DEF ReturnExisting, ledgerVars, Complete
    <3>3. QED
      BY <2>5, <3>2
  <2>7. CASE NoExisting(w)
    <3>1. Fresh(e)
      BY <2>2, <2>7 DEF NoExisting, At, Stage, Complete
    <3>2. Stage(e, "reserve")'
      BY <2>7, <3>1 DEF NoExisting, ledgerVars, Stage, Fresh, Unfiled
    <3>3. QED
      BY <2>4, <2>7, <3>2 DEF NoExisting, Running
  <2>8. CASE ReserveBudget(w)
    <3>1. Fresh(e)
      BY <2>2, <2>8 DEF ReserveBudget, At, Stage
    <3>2. reservations'[e].status = "RESERVED"
      BY <2>0, <2>1, <2>8, <3>1 DEF ReserveBudget, ReserveResources, ReserveNew, ReserveAgain, Fresh, Row
    <3>3. Stage(e, "evaluate")'
      BY <2>8, <3>1, <3>2 DEF ReserveBudget, ledgerVars, Stage, Fresh, Unfiled
    <3>4. QED
      BY <2>4, <2>8, <3>3 DEF ReserveBudget, Running
  <2>9. CASE CatchBudgetExceeded(w)
    <3>1. Fresh(e)
      BY <2>2, <2>9 DEF CatchBudgetExceeded, At, Stage
    <3>2. Stage(e, "reject")'
      BY <2>9, <3>1 DEF CatchBudgetExceeded, ledgerVars, Stage, Fresh, Unfiled
    <3>3. task'[w].pc = "reject" /\ Exp(w)' = e
      BY <2>0, <2>9 DEF CatchBudgetExceeded, Locals, Exp
    <3>4. QED
      BY <3>2, <3>3 DEF Running
  <2>10. CASE RecordRejection(w)
    <3>1. Fresh(e)
      BY <2>2, <2>10 DEF RecordRejection, At, Stage
    <3>2. task' = [task EXCEPT ![w].pc = "open", ![w].record.kind = "BUDGET_EXHAUSTED"]
      BY <2>10, <3>1 DEF RecordRejection, Fresh
    <3>3. task'[w].pc = "open" /\ Exp(w)' = e
      BY <2>0, <3>2 DEF Locals, Exp
    <3>4. Stage(e, "open")'
      BY <2>10, <3>1 DEF RecordRejection, Stage, Fresh, Unfiled
    <3>5. QED
      BY <3>3, <3>4 DEF Running
  <2>11. CASE Evaluate(w)
    <3>1. task'[w].pc = "reconcile" /\ Exp(w)' = e
      BY <2>0, <2>11 DEF Evaluate, Locals, Exp
    <3>2. Stage(e, "reconcile")'
      BY <2>2, <2>11 DEF Evaluate, At, ledgerVars, Stage, Unfiled
    <3>3. QED
      BY <3>1, <3>2 DEF Running
  <2>12. CASE Reconcile(w)
    <3>1. task'[w].pc = "open" /\ Exp(w)' = e
      BY <2>0, <2>12 DEF Reconcile, Locals, Exp
    <3>2. Stage(e, "open")'
      BY <2>2, <2>12 DEF Reconcile, At, ledgerVars, Stage, Unfiled
    <3>3. QED
      BY <3>1, <3>2 DEF Running
  <2>13. ~ReconcileRaises(w)
    BY <2>2 DEF ReconcileRaises, ReconcileConflict, At, Stage
  <2>14. CASE OpenReceipt(w)
    <3>1. Stage(e, "write")'
      BY <2>2, <2>14 DEF OpenReceipt, At, ledgerVars, Stage, Unfiled
    <3>2. QED
      BY <2>4, <2>14, <3>1 DEF OpenReceipt, Running
  <2>15. ~ReceiptExists(w)
    BY <2>2 DEF ReceiptExists, At, Stage, Unfiled
  <2>16. CASE WriteReceipt(w)
    <3>1. Stage(e, "insert")'
      BY <2>2, <2>16 DEF WriteReceipt, At, ledgerVars, Stage
    <3>2. QED
      BY <2>4, <2>16, <3>1 DEF WriteReceipt, Running
  <2>17. CASE InsertEvidence(w)
    <3>1. evidence[e] = NoRecord /\ Mine(w) # NoRecord
      BY <2>2, <2>17, MineIsARecord DEF InsertEvidence, At, Stage, Measured
    <3>2. Goto(w, "node") /\ evidence'[e] # NoRecord
      BY <2>0, <2>1, <2>17, <3>1 DEF InsertEvidence
    <3>3. Stage(e, "node")'
      BY <3>2 DEF Stage
    <3>4. QED
      BY <2>4, <3>2, <3>3 DEF Running
  <2>18. CASE AddNode(w)
    <3>1. Stage(e, "edge")'
      BY <2>2, <2>18 DEF AddNode, At, Stage
    <3>2. QED
      BY <2>4, <2>18, <3>1 DEF AddNode, Running
  <2>19. CASE AddEdge(w)
    <3>1. Stage(e, "event")'
      BY <2>2, <2>19 DEF AddEdge, At, Stage
    <3>2. QED
      BY <2>4, <2>19, <3>1 DEF AddEdge, Running
  <2>20. CASE RecordEvent(w)
    <3>1. Complete(e)'
      BY <2>2, <2>20 DEF RecordEvent, At, Stage, Complete
    <3>2. QED
      BY <2>5, <2>20, <3>1 DEF RecordEvent
  <2>21. QED
    BY <1>2, <2>3, <2>6, <2>7, <2>8, <2>9, <2>10, <2>11, <2>12, <2>13, <2>14, <2>15, <2>16,
       <2>17, <2>18, <2>19, <2>20 DEF Step
<1>3. QED
  BY <1>1, <1>2, AttemptStarts DEF ExecutionNext

\* Calling execute again is safe for any number of workers and experiments: as
\* long as no attempt at an experiment was cut short or overlapped another, no
\* call about it raises and each returns evidence linked into the graph.
THEOREM UndisturbedAttemptsAlwaysComplete == ExecutionSpec => []UndisturbedAttemptsComplete
<1>1. EndedSomewhere /\ AttemptInv => UndisturbedAttemptsComplete
  BY DEF EndedSomewhere, AttemptInv, UndisturbedAttemptsComplete, Complete
<1>2. QED
  BY TypeInit, TypeStep, FileInit, FileStep, EndedInit, EndedStep, AttemptInit, AttemptStep,
     <1>1, PTL
     DEF ExecutionSpec

-----------------------------------------------------------------------------
(* What the ledger's rows add up to *)

\* What each row holds in dimension d.
Charges(d) == [e \in Experiments |-> Charge(e, d)]

\* A row that was not flagged as an overrun holds no more than it asked for.
RowInv ==
  \A e \in Experiments :
    /\ reservations[e].status # "RECONCILED" => reservations[e].over = {}
    /\ reservations[e].over = {} =>
         \A d \in Dims : reservations[e].status = "RECONCILED" =>
                           reservations[e].actual[d] <= Requested[e][d]

\* What was not flagged as an overrun fits the budget.
HonouredFits == \A d \in Dims : Limit[d] > 0 => TotalOver(Honoured, d) <= Limit[d]

LedgerInv == TypeOK /\ RowInv /\ OverspendIsFlagged /\ HonouredFits

LEMMA ChargeType ==
  ASSUME TypeOK, NEW e \in Experiments, NEW d \in Dims
  PROVE  Charge(e, d) \in Nat
<1>1. reservations[e].status \in RowStatus /\ reservations[e].actual \in [Dims -> Nat]
      /\ Requested[e][d] \in Nat
  BY LedgerAssumption DEF TypeOK, Row, Zero
<1>2. QED
  BY <1>1 DEF Charge, RowStatus

LEMMA ChargeTypeNext ==
  ASSUME NEW e \in Experiments, NEW d \in Dims
  PROVE  TypeOK' => (Charge(e, d) \in Nat)'
<1>1. TypeOK => Charge(e, d) \in Nat
  BY ChargeType
<1>2. QED
  BY <1>1, PTL

\* What TotalOver adds up, before and after a step.
LEMMA TotalIsSum ==
  ASSUME TypeOK, NEW S \in SUBSET Experiments, NEW d \in Dims
  PROVE  /\ TotalOver(S, d) = SumFunctionOnSet(Charges(d), S)
         /\ TotalOver(S, d) \in Nat
<1>1. \A e \in Experiments : Charges(d)[e] = Charge(e, d) /\ Charges(d)[e] \in Nat
  BY ChargeType DEF Charges
<1>2. [e \in S |-> Charge(e, d)] = [e \in S |-> Charges(d)[e]]
  BY <1>1
<1>3. TotalOver(S, d) = SumFunctionOnSet(Charges(d), S)
  <2>1. IsFiniteSet(Experiments) /\ \A e \in Experiments : Charges(d)[e] \in Int
    BY <1>1, LedgerAssumption
  <2>2. SumFunction([e \in S |-> Charges(d)[e]]) = SumFunctionOnSet(Charges(d), S)
    BY <2>1, SumOfPart
  <2>3. QED
    BY <1>2, <2>2 DEF TotalOver
<1>4. IsFiniteSet(S)
  BY LedgerAssumption, FS_Subset
<1>5. QED
  BY <1>1, <1>3, <1>4, SumOfNaturals

LEMMA TotalIsSumNext ==
  ASSUME NEW S \in SUBSET Experiments, NEW d \in Dims
  PROVE  TypeOK' => (/\ TotalOver(S, d) = SumFunctionOnSet(Charges(d), S)
                     /\ TotalOver(S, d) \in Nat)'
<1>1. TypeOK => (/\ TotalOver(S, d) = SumFunctionOnSet(Charges(d), S)
                 /\ TotalOver(S, d) \in Nat)
  BY TotalIsSum
<1>2. QED
  BY <1>1, PTL

LEMMA HonouredIsSum ==
  ASSUME NEW d \in Dims
  PROVE  /\ TypeOK => /\ TotalOver(Honoured, d) = SumFunctionOnSet(Charges(d), Honoured)
                      /\ TotalOver(Honoured, d) \in Nat
         /\ TypeOK' => (/\ TotalOver(Honoured, d) = SumFunctionOnSet(Charges(d), Honoured)
                        /\ TotalOver(Honoured, d) \in Nat)'
<1>1. TypeOK => /\ TotalOver(Honoured, d) = SumFunctionOnSet(Charges(d), Honoured)
                /\ TotalOver(Honoured, d) \in Nat
  BY TotalIsSum DEF Honoured
<1>2. QED
  BY <1>1, PTL

\* One row moves; a total over rows that hold it moves by as much.
LEMMA TotalMoves ==
  ASSUME TypeOK, TypeOK', NEW d \in Dims, NEW e \in Experiments,
         \A x \in Experiments \ {e} : reservations'[x] = reservations[x],
         NEW S \in SUBSET Experiments, e \in S
  PROVE  /\ SumFunctionOnSet(Charges(d)', S) =
              SumFunctionOnSet(Charges(d), S) - Charge(e, d) + Charge(e, d)'
         /\ SumFunctionOnSet(Charges(d)', S \ {e}) =
              SumFunctionOnSet(Charges(d), S) - Charge(e, d)
         /\ SumFunctionOnSet(Charges(d), S \ {e}) =
              SumFunctionOnSet(Charges(d), S) - Charge(e, d)
         /\ SumFunctionOnSet(Charges(d), S) \in Nat
<1> DEFINE f == Charges(d)
           g == Charges(d)'
<1>1. \A x \in Experiments : f[x] = Charge(x, d) /\ f[x] \in Nat
  BY ChargeType DEF Charges
<1>2. \A x \in Experiments : g[x] = Charge(x, d)' /\ g[x] \in Nat
  BY ChargeTypeNext DEF Charges
<1>3. \A x \in S \ {e} : g[x] = f[x]
  BY <1>1, <1>2 DEF Charge
<1>4. IsFiniteSet(S) /\ IsFiniteSet(S \ {e})
  BY LedgerAssumption, FS_Subset
<1>5. /\ \A x \in S : f[x] \in Int /\ g[x] \in Int
      /\ \A x \in S \ {e} : f[x] \in Int /\ g[x] \in Int
      /\ \A x \in S : f[x] \in Nat
      /\ f[e] = Charge(e, d) /\ g[e] = Charge(e, d)'
      /\ f[e] \in Int /\ g[e] \in Int
  BY <1>1, <1>2
<1> HIDE DEF f, g
<1>6. SumFunctionOnSet(g, S) = SumFunctionOnSet(f, S) - f[e] + g[e]
  BY <1>3, <1>4, <1>5, SumChangeOne
<1>7. SumFunctionOnSet(g, S \ {e}) = SumFunctionOnSet(f, S \ {e})
  BY <1>3, <1>4, <1>5, SumOfEqual
<1>8. SumFunctionOnSet(f, S) = f[e] + SumFunctionOnSet(f, S \ {e})
  BY <1>4, <1>5, SumTakeOne
<1>9. SumFunctionOnSet(f, S) \in Nat /\ SumFunctionOnSet(f, S \ {e}) \in Int
  BY <1>4, <1>5, SumOfNaturals, SumOfIntegers
<1>10. SumFunctionOnSet(f, S \ {e}) = SumFunctionOnSet(f, S) - f[e]
  BY <1>5, <1>8, <1>9
<1>11. QED
  BY <1>5, <1>6, <1>7, <1>9, <1>10 DEF f, g

\* What each transaction does to the row it writes.
LEMMA ReserveEffect ==
  ASSUME TypeOK, RowInv, NEW e \in Experiments, ReserveNew(e)
  PROVE  /\ TypeOK' /\ RowInv'
         /\ \A x \in Experiments \ {e} : reservations'[x] = reservations[x]
         /\ reservations[e].status = "NONE" /\ reservations'[e].status = "RESERVED"
         /\ reservations[e].over = {} /\ reservations'[e].over = {}
         /\ \A d \in Dims : Charge(e, d) = 0 /\ Charge(e, d)' = Requested[e][d]
<1>1. reservations[e] \in Row /\ reservations'[e] = [reservations[e] EXCEPT !.status = "RESERVED"]
  BY DEF TypeOK, ReserveNew
<1>2. reservations[e].status = "NONE" /\ reservations'[e].status = "RESERVED"
      /\ reservations'[e].over = reservations[e].over /\ reservations'[e] \in Row
      /\ reservations[e].over = {}
  BY <1>1 DEF Row, RowStatus, ReserveNew, RowInv
<1>3. \A x \in Experiments \ {e} : reservations'[x] = reservations[x]
  BY DEF TypeOK, ReserveNew
<1>4. TypeOK' /\ RowInv'
  BY <1>2, <1>3 DEF TypeOK, RowInv, ReserveNew
<1>5. QED
  BY <1>2, <1>3, <1>4 DEF Charge

LEMMA ReconcileEffect ==
  ASSUME TypeOK, RowInv, NEW e \in Experiments, NEW u \in Usages \cup {Zero}, ReconcileNew(e, u)
  PROVE  /\ TypeOK' /\ RowInv'
         /\ \A x \in Experiments \ {e} : reservations'[x] = reservations[x]
         /\ reservations[e].status = "RESERVED" /\ reservations[e].over = {}
         /\ reservations'[e].status = "RECONCILED"
         /\ reservations'[e].over = OverrunDims(e, u)
         /\ \A d \in Dims : /\ Charge(e, d) = Requested[e][d] /\ Charge(e, d)' = u[d]
                            /\ u[d] \in Nat /\ Requested[e][d] \in Nat
                            /\ u[d] > Requested[e][d] => d \in OverrunDims(e, u)
<1>1. /\ reservations'[e].status = "RECONCILED" /\ reservations'[e].actual = u
      /\ reservations'[e].over = OverrunDims(e, u)
      /\ \A x \in Experiments \ {e} : reservations'[x] = reservations[x]
  BY DEF TypeOK, ReconcileNew
<1>2. reservations[e].status = "RESERVED" /\ reservations[e].over = {}
  BY DEF ReconcileNew, RowInv
<1>3. TypeOK'
  BY DEF TypeOK, Row, RowStatus, ReconcileNew, OverrunDims
<1>4. \A d \in Dims : /\ u[d] \in Nat /\ Requested[e][d] \in Nat
                      /\ u[d] > Requested[e][d] => d \in OverrunDims(e, u)
  BY LedgerAssumption DEF Zero, OverrunDims
<1>5. RowInv'
  <2>1. reservations'[e].over = {} => \A d \in Dims : u[d] <= Requested[e][d]
    BY <1>1, <1>4
  <2>2. QED
    BY <1>1, <2>1 DEF RowInv
<1>6. QED
  BY <1>1, <1>2, <1>3, <1>4, <1>5 DEF Charge

\* What a reconciliation does to the totals.
LEMMA ReconcileTotals ==
  ASSUME TypeOK, RowInv, NEW e \in Experiments, NEW u \in Usages \cup {Zero},
         ReconcileNew(e, u), NEW d \in Dims
  PROVE  /\ TotalOver(Experiments, d)' = TotalOver(Experiments \ {e}, d) + u[d]
         /\ TotalOver(Honoured, d)' =
              TotalOver(Honoured, d) - Requested[e][d] + (IF OverrunDims(e, u) = {} THEN u[d] ELSE 0)
         /\ OverrunDims(e, u) = {} => u[d] <= Requested[e][d]
<1>1. /\ TypeOK'
      /\ \A x \in Experiments \ {e} : reservations'[x] = reservations[x]
      /\ reservations[e].over = {} /\ reservations'[e].over = OverrunDims(e, u)
      /\ Charge(e, d) = Requested[e][d] /\ Charge(e, d)' = u[d]
      /\ u[d] \in Nat /\ Requested[e][d] \in Nat
      /\ u[d] > Requested[e][d] => d \in OverrunDims(e, u)
  BY ReconcileEffect
<1>2. /\ e \in Honoured /\ Honoured \in SUBSET Experiments
      /\ Honoured' = IF OverrunDims(e, u) = {} THEN Honoured ELSE Honoured \ {e}
  BY <1>1 DEF Honoured
<1>3. TotalOver(Experiments, d)' = TotalOver(Experiments \ {e}, d) + u[d]
  <2>1. /\ SumFunctionOnSet(Charges(d)', Experiments) =
              SumFunctionOnSet(Charges(d), Experiments) - Charge(e, d) + Charge(e, d)'
        /\ SumFunctionOnSet(Charges(d), Experiments \ {e}) =
              SumFunctionOnSet(Charges(d), Experiments) - Charge(e, d)
        /\ SumFunctionOnSet(Charges(d), Experiments) \in Nat
    BY <1>1, TotalMoves
  <2>2. /\ TotalOver(Experiments, d)' = SumFunctionOnSet(Charges(d)', Experiments)
        /\ TotalOver(Experiments \ {e}, d) = SumFunctionOnSet(Charges(d), Experiments \ {e})
    BY <1>1, TotalIsSum, TotalIsSumNext
  <2>3. QED
    BY <1>1, <2>1, <2>2
<1>4. TotalOver(Honoured, d)' =
        TotalOver(Honoured, d) - Requested[e][d] + (IF OverrunDims(e, u) = {} THEN u[d] ELSE 0)
  <2>1. /\ SumFunctionOnSet(Charges(d)', Honoured) =
              SumFunctionOnSet(Charges(d), Honoured) - Charge(e, d) + Charge(e, d)'
        /\ SumFunctionOnSet(Charges(d)', Honoured \ {e}) =
              SumFunctionOnSet(Charges(d), Honoured) - Charge(e, d)
        /\ SumFunctionOnSet(Charges(d), Honoured) \in Nat
    BY <1>1, <1>2, TotalMoves
  <2>2. /\ TotalOver(Honoured, d)' = SumFunctionOnSet(Charges(d)', Honoured')
        /\ TotalOver(Honoured, d) = SumFunctionOnSet(Charges(d), Honoured)
    BY <1>1, HonouredIsSum
  <2>3. CASE OverrunDims(e, u) = {}
    BY <1>1, <1>2, <2>1, <2>2, <2>3
  <2>4. CASE OverrunDims(e, u) # {}
    BY <1>1, <1>2, <2>1, <2>2, <2>4
  <2>5. QED
    BY <2>3, <2>4
<1>5. QED
  BY <1>1, <1>3, <1>4

LEMMA LedgerStep ==
  ASSUME LedgerInv, [\E e \in Experiments : \/ ReserveResources(e)
                                          \/ \E u \in Usages \cup {Zero} : ReconcileResources(e, u)]_reservations
  PROVE  LedgerInv'
<1> USE DEF LedgerInv
<1>0. \A d \in Dims : Limit[d] \in Nat
  BY LedgerAssumption
<1>1. CASE UNCHANGED reservations
  <2>1. \A S \in SUBSET Experiments, d \in Dims : TotalOver(S, d)' = TotalOver(S, d)
    BY <1>1 DEF TotalOver, Charge
  <2>2. \A d \in Dims : TotalOver(Honoured, d)' = TotalOver(Honoured, d)
    BY <1>1 DEF TotalOver, Charge, Honoured
  <2>3. TypeOK' /\ RowInv'
    BY <1>1 DEF TypeOK, RowInv
  <2>4. OverspendIsFlagged'
    BY <1>1, <2>1 DEF OverspendIsFlagged
  <2>5. QED
    BY <2>2, <2>3, <2>4 DEF HonouredFits
<1>2. ASSUME NEW e \in Experiments, ReserveNew(e) PROVE LedgerInv'
  <2>1. /\ TypeOK' /\ RowInv'
        /\ \A x \in Experiments \ {e} : reservations'[x] = reservations[x]
        /\ reservations[e].over = {} /\ reservations'[e].over = {}
        /\ \A d \in Dims : Charge(e, d) = 0 /\ Charge(e, d)' = Requested[e][d]
    BY <1>2, ReserveEffect
  <2>2. e \in Honoured /\ Honoured \in SUBSET Experiments /\ Honoured' = Honoured
    BY <2>1 DEF Honoured
  <2>3. ASSUME NEW d \in Dims, Limit[d] > 0
        PROVE  ~(TotalOver(Experiments, d)' > Limit[d]) /\ TotalOver(Honoured, d)' <= Limit[d]
    <3>1. TotalOver(Experiments, d) + Requested[e][d] <= Limit[d]
      <4>1. d \notin RefusedDims(e)
        BY <1>2 DEF ReserveNew
      <4>2. TotalOver(Experiments, d) \in Nat /\ Requested[e][d] \in Nat
        BY TotalIsSum, LedgerAssumption
      <4>3. QED
        BY <4>1, <4>2, <2>3, <1>0 DEF RefusedDims, Exceeds
    <3>2. TotalOver(Experiments, d)' = TotalOver(Experiments, d) + Requested[e][d]
      <4>1. SumFunctionOnSet(Charges(d)', Experiments) =
              SumFunctionOnSet(Charges(d), Experiments) - Charge(e, d) + Charge(e, d)'
        BY <2>1, TotalMoves
      <4>2. /\ TotalOver(Experiments, d)' = SumFunctionOnSet(Charges(d)', Experiments)
            /\ TotalOver(Experiments, d) = SumFunctionOnSet(Charges(d), Experiments)
            /\ TotalOver(Experiments, d) \in Nat
        BY <2>1, TotalIsSum, TotalIsSumNext
      <4>3. QED
        BY <2>1, <4>1, <4>2
    <3>3. TotalOver(Honoured, d)' <= TotalOver(Experiments, d)'
      <4>1. /\ TotalOver(Experiments, d)' = SumFunctionOnSet(Charges(d)', Experiments)
            /\ TotalOver(Honoured, d)' = SumFunctionOnSet(Charges(d)', Honoured')
        BY <2>1, TotalIsSumNext, HonouredIsSum
      <4>2. \A x \in Experiments : (Charges(d)')[x] \in Nat
        BY <2>1, ChargeTypeNext DEF Charges
      <4>3. SumFunctionOnSet(Charges(d)', Honoured) <= SumFunctionOnSet(Charges(d)', Experiments)
        BY <4>2, <2>2, LedgerAssumption, SumOfNaturals
      <4>4. QED
        BY <4>1, <4>3, <2>2
    <3>4. /\ TotalOver(Experiments, d)' \in Nat /\ TotalOver(Honoured, d)' \in Nat
          /\ Limit[d] \in Nat
      BY <2>1, <1>0, TotalIsSumNext, HonouredIsSum
    <3>5. QED
      BY <3>1, <3>2, <3>3, <3>4
  <2>4. QED
    BY <2>1, <2>3 DEF OverspendIsFlagged, HonouredFits
<1>3. ASSUME NEW e \in Experiments, NEW u \in Usages \cup {Zero}, ReconcileNew(e, u)
      PROVE  LedgerInv'
  <2>1. /\ TypeOK' /\ RowInv'
        /\ \A x \in Experiments \ {e} : reservations'[x] = reservations[x]
        /\ reservations[e].over = {} /\ reservations'[e].over = OverrunDims(e, u)
        /\ \A d \in Dims : u[d] \in Nat /\ Requested[e][d] \in Nat
    BY <1>3, ReconcileEffect
  <2>2. ASSUME NEW d \in Dims, Limit[d] > 0, TotalOver(Experiments, d)' > Limit[d]
        PROVE  d \in reservations'[e].over
    <3>1. TotalOver(Experiments, d)' = TotalOver(Experiments \ {e}, d) + u[d]
      BY <1>3, ReconcileTotals
    <3>2. QED
      BY <2>1, <2>2, <3>1 DEF OverrunDims, Exceeds
  <2>3. ASSUME NEW d \in Dims, Limit[d] > 0 PROVE TotalOver(Honoured, d)' <= Limit[d]
    <3>1. /\ TotalOver(Honoured, d)' =
                TotalOver(Honoured, d) - Requested[e][d] + (IF OverrunDims(e, u) = {} THEN u[d] ELSE 0)
          /\ OverrunDims(e, u) = {} => u[d] <= Requested[e][d]
      BY <1>3, ReconcileTotals
    <3>2. TotalOver(Honoured, d) <= Limit[d] /\ TotalOver(Honoured, d) \in Nat /\ Limit[d] \in Nat
      BY <2>3, <1>0, HonouredIsSum DEF HonouredFits
    <3>3. QED
      BY <2>1, <3>1, <3>2
  <2>4. OverspendIsFlagged'
    BY <2>2 DEF OverspendIsFlagged
  <2>5. QED
    BY <2>1, <2>3, <2>4 DEF HonouredFits
<1>4. QED
  BY <1>1, <1>2, <1>3
     DEF ReserveResources, ReserveAgain, ReconcileResources, ReconcileAgain

LEMMA NoChargeNoTotal ==
  ASSUME TypeOK, NEW d \in Dims, \A e \in Experiments : Charge(e, d) = 0
  PROVE  TotalOver(Experiments, d) = 0
<1> DEFINE f == Charges(d)
<1>1. \A e \in Experiments : f[e] = 0
  BY DEF Charges
<1>2. TotalOver(Experiments, d) = SumFunctionOnSet(f, Experiments)
  BY TotalIsSum
<1> HIDE DEF f
<1>3. \A e \in Experiments : f[e] \in Int
  BY <1>1
<1>4. \A e \in Experiments \ {} : f[e] = 0
  BY <1>1
<1>5. SumFunctionOnSet(f, Experiments) = SumFunctionOnSet(f, {})
  BY <1>3, <1>4, LedgerAssumption, SumOfZeros
<1>6. SumFunctionOnSet(f, {}) = 0
  BY <1>3, LedgerAssumption, SumOfIntegers
<1>7. QED
  BY <1>2, <1>5, <1>6

LEMMA LedgerInit == InitReservations => LedgerInv
<1> SUFFICES ASSUME InitReservations PROVE LedgerInv
  OBVIOUS
<1>1. TypeOK /\ RowInv /\ \A e \in Experiments : reservations[e].over = {}
  BY DEF InitReservations, TypeOK, RowInv, Row, RowStatus, NoRow
<1>2. Honoured = Experiments
  BY <1>1 DEF Honoured
<1>3. ASSUME NEW d \in Dims PROVE TotalOver(Experiments, d) = 0
  <2>1. \A e \in Experiments : Charge(e, d) = 0
    BY DEF Charge, InitReservations, NoRow
  <2>2. QED
    BY <1>1, <2>1, NoChargeNoTotal
<1>4. QED
  BY <1>1, <1>2, <1>3, LedgerAssumption DEF LedgerInv, OverspendIsFlagged, HonouredFits

\* However reservations and reconciliations interleave, the table exceeds a
\* capped dimension only if some reconciliation in it says so.
THEOREM OverspendAlwaysFlagged == Spec => []OverspendIsFlagged
<1>1. LedgerInv /\ [Next]_reservations => LedgerInv'
  BY LedgerStep DEF Next
<1>2. LedgerInv => OverspendIsFlagged
  BY DEF LedgerInv
<1>3. QED
  BY LedgerInit, <1>1, <1>2, PTL DEF Spec

\* What was never flagged as an overrun fits every capped dimension.
THEOREM HonouredAlwaysFits == Spec => []HonouredFits
<1>1. LedgerInv /\ [Next]_reservations => LedgerInv'
  BY LedgerStep DEF Next
<1>2. LedgerInv => HonouredFits
  BY DEF LedgerInv
<1>3. QED
  BY LedgerInit, <1>1, <1>2, PTL DEF Spec

-----------------------------------------------------------------------------
(* The ledger implements the budget account *)

Claims == [e \in Experiments |-> ClaimOf(e)]

HonouredTotals == [d \in Dims |-> TotalOver(Honoured, d)]

\* A step of one row is seen as a step of its claim.
LEMMA ClaimMoves ==
  ASSUME NEW e \in Experiments,
         \A x \in Experiments \ {e} : reservations'[x] = reservations[x]
  PROVE  Claims' = [Claims EXCEPT ![e] = ClaimOf(e)']
<1>1. \A x \in Experiments \ {e} : ClaimOf(x)' = ClaimOf(x)
  BY DEF ClaimOf
<1>2. QED
  BY <1>1 DEF Claims

LEMMA ReserveOpens ==
  ASSUME LedgerInv, NEW e \in Experiments, ReserveNew(e)
  PROVE  Account!Open(e)
<1>1. /\ TypeOK' /\ RowInv'
      /\ \A x \in Experiments \ {e} : reservations'[x] = reservations[x]
      /\ reservations[e].status = "NONE" /\ reservations'[e].status = "RESERVED"
      /\ reservations[e].over = {} /\ reservations'[e].over = {}
      /\ \A d \in Dims : Charge(e, d) = 0 /\ Charge(e, d)' = Requested[e][d]
  BY ReserveEffect DEF LedgerInv
<1>2. Claims[e] = "none" /\ Claims' = [Claims EXCEPT ![e] = "open"]
  BY <1>1, ClaimMoves DEF Claims, ClaimOf
<1>3. e \in Honoured /\ Honoured \in SUBSET Experiments /\ Honoured' = Honoured
  BY <1>1 DEF Honoured
<1>4. ASSUME NEW d \in Dims
      PROVE  /\ Limit[d] > 0 => TotalOver(Honoured, d) + Requested[e][d] <= Limit[d]
             /\ TotalOver(Honoured, d)' = TotalOver(Honoured, d) + Requested[e][d]
  <2>1. /\ TotalOver(Experiments, d) \in Nat /\ TotalOver(Honoured, d) \in Nat
        /\ Limit[d] \in Nat /\ Requested[e][d] \in Nat
        /\ TotalOver(Honoured, d) = SumFunctionOnSet(Charges(d), Honoured)
        /\ TotalOver(Experiments, d) = SumFunctionOnSet(Charges(d), Experiments)
    BY TotalIsSum, HonouredIsSum, LedgerAssumption DEF LedgerInv
  <2>2. \A x \in Experiments : Charges(d)[x] \in Nat
    BY ChargeType DEF Charges, LedgerInv
  <2>3. SumFunctionOnSet(Charges(d), Honoured) <= SumFunctionOnSet(Charges(d), Experiments)
    BY <1>3, <2>2, LedgerAssumption, SumOfNaturals
  <2>4. d \notin RefusedDims(e)
    BY DEF ReserveNew
  <2>5. Limit[d] > 0 => TotalOver(Honoured, d) + Requested[e][d] <= Limit[d]
    BY <2>1, <2>3, <2>4 DEF RefusedDims, Exceeds
  <2>6. SumFunctionOnSet(Charges(d)', Honoured) =
          SumFunctionOnSet(Charges(d), Honoured) - Charge(e, d) + Charge(e, d)'
    BY <1>1, <1>3, TotalMoves DEF LedgerInv
  <2>7. TotalOver(Honoured, d)' = SumFunctionOnSet(Charges(d)', Honoured')
    BY <1>1, HonouredIsSum
  <2>8. QED
    BY <1>1, <1>3, <2>1, <2>5, <2>6, <2>7
<1>5. HonouredTotals' = [d \in Dims |-> HonouredTotals[d] + Requested[e][d]]
  BY <1>4 DEF HonouredTotals
<1>6. \A d \in Account!Capped : HonouredTotals[d] + Requested[e][d] <= Limit[d]
  BY <1>4 DEF HonouredTotals, Account!Capped
<1>7. QED
  BY <1>2, <1>5, <1>6 DEF Account!Open, Claims, HonouredTotals

LEMMA ReconcileSettles ==
  ASSUME LedgerInv, NEW e \in Experiments, NEW u \in Usages \cup {Zero}, ReconcileNew(e, u)
  PROVE  Account!Close(e) \/ Account!Forfeit(e)
<1>1. /\ TypeOK' /\ RowInv'
      /\ \A x \in Experiments \ {e} : reservations'[x] = reservations[x]
      /\ reservations[e].status = "RESERVED" /\ reservations'[e].status = "RECONCILED"
      /\ reservations'[e].over = OverrunDims(e, u)
      /\ \A d \in Dims : u[d] \in Nat /\ Requested[e][d] \in Nat
  BY ReconcileEffect DEF LedgerInv
<1>2. Claims[e] = "open"
      /\ Claims' = [Claims EXCEPT ![e] = IF OverrunDims(e, u) = {} THEN "closed" ELSE "forfeit"]
  BY <1>1, ClaimMoves DEF Claims, ClaimOf
<1>3. ASSUME NEW d \in Dims
      PROVE  /\ HonouredTotals[d] = TotalOver(Honoured, d) /\ TotalOver(Honoured, d) \in Nat
             /\ TotalOver(Honoured, d)' =
                  TotalOver(Honoured, d) - Requested[e][d]
                    + (IF OverrunDims(e, u) = {} THEN u[d] ELSE 0)
             /\ OverrunDims(e, u) = {} => u[d] <= Requested[e][d]
  BY ReconcileTotals, HonouredIsSum DEF LedgerInv, HonouredTotals
<1>4. CASE OverrunDims(e, u) = {}
  <2>1. ASSUME NEW d \in Dims
        PROVE  /\ TotalOver(Honoured, d)' \in Int
               /\ TotalOver(Honoured, d)' \in
                     (HonouredTotals[d] - Requested[e][d]) .. HonouredTotals[d]
    BY <1>1, <1>3, <1>4
  <2>2. HonouredTotals' \in [Dims -> Int]
    BY <2>1 DEF HonouredTotals
  <2>3. \A d \in Dims : HonouredTotals'[d] \in
                           (HonouredTotals[d] - Requested[e][d]) .. HonouredTotals[d]
    BY <2>1 DEF HonouredTotals
  <2>4. QED
    BY <1>2, <1>4, <2>2, <2>3 DEF Account!Close, Claims, HonouredTotals
<1>5. CASE OverrunDims(e, u) # {}
  <2>1. HonouredTotals' = [d \in Dims |-> HonouredTotals[d] - Requested[e][d]]
    BY <1>1, <1>3, <1>5 DEF HonouredTotals
  <2>2. QED
    BY <1>2, <1>5, <2>1 DEF Account!Forfeit, Claims, HonouredTotals
<1>6. QED
  BY <1>4, <1>5

LEMMA LedgerStepIsAccountStep ==
  LedgerInv /\ [Next]_reservations => [Account!Next]_(Account!accountVars)
<1> SUFFICES ASSUME LedgerInv, [Next]_reservations
             PROVE  [Account!Next]_(Account!accountVars)
  OBVIOUS
<1>1. CASE UNCHANGED reservations
  BY <1>1 DEF Account!accountVars, ClaimOf, TotalOver, Charge, Honoured
<1>2. ASSUME NEW e \in Experiments, ReserveNew(e) PROVE Account!Next
  BY <1>2, ReserveOpens DEF Account!Next
<1>3. ASSUME NEW e \in Experiments, NEW u \in Usages, ReconcileNew(e, u) PROVE Account!Next
  BY <1>3, ReconcileSettles DEF Account!Next
<1>4. QED
  BY <1>1, <1>2, <1>3
     DEF Next, ReserveResources, ReserveAgain, ReconcileResources, ReconcileAgain

LEMMA LedgerInitIsAccountInit == InitReservations => Account!Init
<1> SUFFICES ASSUME InitReservations PROVE Account!Init
  OBVIOUS
<1>1. LedgerInv /\ \A e \in Experiments : reservations[e] = NoRow
  BY LedgerInit DEF InitReservations
<1>2. [e \in Experiments |-> ClaimOf(e)] = [e \in Experiments |-> "none"]
  BY <1>1 DEF ClaimOf, NoRow
<1>3. ASSUME NEW d \in Dims PROVE TotalOver(Honoured, d) = 0
  <2>1. Honoured = Experiments /\ \A e \in Experiments : Charge(e, d) = 0
    BY <1>1 DEF Honoured, Charge, NoRow
  <2>2. QED
    BY <1>1, <2>1, NoChargeNoTotal DEF LedgerInv
<1>4. QED
  BY <1>2, <1>3 DEF Account!Init

\* The two transactions implement the budget account: a reservation opens a
\* claim within what is left, a settlement closes it or forfeits it.
THEOREM LedgerImplementsAccount == Spec => ImplementsAccount
<1>1. LedgerInv /\ [Next]_reservations => LedgerInv'
  BY LedgerStep DEF Next
<1>2. QED
  BY LedgerInit, LedgerInitIsAccountInit, LedgerStepIsAccountStep, <1>1, PTL
     DEF Spec, ImplementsAccount, Account!Spec

-----------------------------------------------------------------------------
(* Executions spend what the ledger grants *)

LEMMA ExecutionStepIsLedgerStep ==
  ASSUME TypeInv, [ExecutionNext]_vars
  PROVE  [\E e \in Experiments : \/ ReserveResources(e)
                                \/ \E u \in Usages \cup {Zero} : ReconcileResources(e, u)]_reservations
<1>1. ASSUME NEW w \in Workers, ReserveBudget(w) \/ Reconcile(w)
      PROVE  \E e \in Experiments : \/ ReserveResources(e)
                                   \/ \E u \in Usages \cup {Zero} : ReconcileResources(e, u)
  <2>1. Exp(w) \in Experiments /\ Mine(w).usage \in Usages \cup {Zero}
    BY <1>1, MineType DEF ReserveBudget, Reconcile, At, Running
  <2>2. QED
    BY <1>1, <2>1 DEF ReserveBudget, Reconcile
<1>2. ASSUME NEW w \in Workers, Step(w) \/ \E e \in Experiments : Start(w, e),
             ~(ReserveBudget(w) \/ Reconcile(w))
      PROVE  UNCHANGED reservations
  BY <1>2 DEF Step, ReturnExisting, NoExisting, LoseInsertRace, CatchBudgetExceeded,
          RecordRejection, RefuseSplit, Evaluate, ReconcileRaises, OpenReceipt,
          ReceiptExists, WriteReceipt, WriteFails, InsertEvidence, AddNode, AddEdge,
          RecordEvent, Crash, Start
<1>3. QED
  BY <1>1, <1>2 DEF ExecutionNext, vars

\* Everything accepted as science fits the contract together: its charges are
\* among the honoured ones.
THEOREM ScientificSpendAlwaysFits == ExecutionSpec => []ScientificSpendFits
<1>1. TypeInv /\ LedgerInv /\ [ExecutionNext]_vars => LedgerInv'
  BY ExecutionStepIsLedgerStep, LedgerStep
<1>2. Init => LedgerInv
  BY LedgerInit DEF Init
<1>3. TypeInv /\ LedgerInv /\ ScientificEvidenceIsSettled => ScientificSpendFits
  <2> SUFFICES ASSUME TypeInv, LedgerInv, ScientificEvidenceIsSettled,
                      NEW d \in Dims, Limit[d] > 0
               PROVE  SumFunction([e \in Scientific |-> evidence[e].usage[d]]) <= Limit[d]
    BY DEF ScientificSpendFits
  <2>1. Scientific \in SUBSET Honoured /\ Honoured \in SUBSET Experiments
        /\ Scientific \in SUBSET Experiments
    BY DEF ScientificEvidenceIsSettled, Scientific, Honoured
  <2>2. \A e \in Experiments : Charges(d)[e] \in Nat
    BY ChargeType DEF Charges, LedgerInv
  <2>3. [e \in Scientific |-> evidence[e].usage[d]] = [e \in Scientific |-> Charges(d)[e]]
    BY <2>1 DEF ScientificEvidenceIsSettled, Charges, Charge
  <2>4. SumFunction([e \in Scientific |-> Charges(d)[e]]) = SumFunctionOnSet(Charges(d), Scientific)
    <3>1. \A e \in Experiments : Charges(d)[e] \in Int
      BY <2>2
    <3>2. QED
      BY <2>1, <3>1, LedgerAssumption, SumOfPart
  <2>5. SumFunctionOnSet(Charges(d), Scientific) <= SumFunctionOnSet(Charges(d), Honoured)
    <3>1. IsFiniteSet(Honoured) /\ \A e \in Honoured : Charges(d)[e] \in Nat
      BY <2>1, <2>2, LedgerAssumption, FS_Subset
    <3>2. QED
      BY <2>1, <3>1, SumOfNaturals
  <2>6. SumFunctionOnSet(Charges(d), Honoured) <= Limit[d]
    BY HonouredIsSum DEF LedgerInv, HonouredFits
  <2>7. /\ SumFunctionOnSet(Charges(d), Scientific) \in Nat
        /\ SumFunctionOnSet(Charges(d), Honoured) \in Nat /\ Limit[d] \in Nat
    <3>1. TypeOK
      BY DEF LedgerInv
    <3>2. TotalOver(Scientific, d) = SumFunctionOnSet(Charges(d), Scientific)
          /\ TotalOver(Scientific, d) \in Nat
      BY <2>1, <3>1, TotalIsSum
    <3>3. SumFunctionOnSet(Charges(d), Honoured) \in Nat
      BY <3>1, HonouredIsSum
    <3>4. QED
      BY <3>2, <3>3, LedgerAssumption
  <2>8. QED
    BY <2>3, <2>4, <2>5, <2>6, <2>7
<1>4. QED
  BY TypeInit, TypeStep, ScientificEvidenceAlwaysSettled, <1>1, <1>2, <1>3, PTL
     DEF ExecutionSpec

-----------------------------------------------------------------------------
(* The budget account, whoever keeps it *)

VARIABLES claim, honoured

AnyAccount == INSTANCE BudgetAccount

AccountInv == AnyAccount!TypeOK /\ AnyAccount!WithinLimit

LEMMA AccountStep ==
  ASSUME Requested \in [Experiments -> [Dims -> Nat]], Limit \in [Dims -> Nat],
         AccountInv, [AnyAccount!Next]_(AnyAccount!accountVars)
  PROVE  AccountInv'
<1>1. CASE UNCHANGED AnyAccount!accountVars
  BY <1>1 DEF AnyAccount!accountVars, AccountInv, AnyAccount!WithinLimit, AnyAccount!TypeOK
<1>2. ASSUME NEW e \in Experiments, AnyAccount!Open(e) PROVE AccountInv'
  <2>1. AnyAccount!TypeOK'
    BY <1>2 DEF AnyAccount!Open, AccountInv, AnyAccount!TypeOK, AnyAccount!ClaimStates
  <2>2. ASSUME NEW d \in AnyAccount!Capped PROVE honoured'[d] <= Limit[d]
    BY <1>2, <2>2 DEF AnyAccount!Open, AnyAccount!Capped, AccountInv, AnyAccount!TypeOK
  <2>3. QED
    BY <2>1, <2>2 DEF AccountInv, AnyAccount!WithinLimit
<1>3. ASSUME NEW e \in Experiments, AnyAccount!Close(e) PROVE AccountInv'
  <2>1. ASSUME NEW d \in AnyAccount!Capped PROVE honoured'[d] <= Limit[d]
    <3>1. d \in Dims /\ honoured[d] \in Int /\ honoured'[d] \in Int /\ honoured[d] <= Limit[d]
      BY <1>3, <2>1
         DEF AnyAccount!Close, AnyAccount!Capped, AccountInv, AnyAccount!WithinLimit, AnyAccount!TypeOK
    <3>2. honoured'[d] <= honoured[d]
      BY <1>3, <3>1 DEF AnyAccount!Close
    <3>3. QED
      BY <3>1, <3>2
  <2>2. AnyAccount!TypeOK'
    BY <1>3 DEF AnyAccount!Close, AccountInv, AnyAccount!TypeOK, AnyAccount!ClaimStates
  <2>3. QED
    BY <2>1, <2>2 DEF AccountInv, AnyAccount!WithinLimit
<1>4. ASSUME NEW e \in Experiments, AnyAccount!Forfeit(e) PROVE AccountInv'
  <2>1. AnyAccount!TypeOK'
    BY <1>4 DEF AnyAccount!Forfeit, AccountInv, AnyAccount!TypeOK, AnyAccount!ClaimStates
  <2>2. ASSUME NEW d \in AnyAccount!Capped PROVE honoured'[d] <= Limit[d]
    BY <1>4, <2>2
       DEF AnyAccount!Forfeit, AnyAccount!Capped, AccountInv, AnyAccount!WithinLimit, AnyAccount!TypeOK
  <2>3. QED
    BY <2>1, <2>2 DEF AccountInv, AnyAccount!WithinLimit
<1>5. QED
  BY <1>1, <1>2, <1>3, <1>4 DEF AnyAccount!Next

\* Whatever the order in which claims are opened, closed and forfeited, what
\* the unforfeited ones stand for never exceeds a capped dimension.
THEOREM AccountStaysWithinLimit ==
  ASSUME Requested \in [Experiments -> [Dims -> Nat]], Limit \in [Dims -> Nat]
  PROVE  AnyAccount!Spec => []AnyAccount!WithinLimit
<1>1. AnyAccount!Init => AccountInv
  BY DEF AnyAccount!Init, AccountInv, AnyAccount!WithinLimit,
         AnyAccount!Capped, AnyAccount!TypeOK, AnyAccount!ClaimStates
<1>2. AccountInv /\ [AnyAccount!Next]_(AnyAccount!accountVars) => AccountInv'
  BY AccountStep
<1>3. AccountInv => AnyAccount!WithinLimit
  BY DEF AccountInv
<1>4. QED
  BY <1>1, <1>2, <1>3, PTL DEF AnyAccount!Spec
============================================================================
