------------------------ MODULE PatchPipelineProofs ------------------------
(***************************************************************************)
(* Proofs about PatchPipeline, for any workers, generations, budgets and   *)
(* numbers of sessions.  The three components share no variable, so each   *)
(* has an invariant of its own, which its own steps preserve; a step of    *)
(* the pipeline is a step of one of them, or a crash of all.               *)
(***************************************************************************)
EXTENDS PatchPipeline, FiniteSetTheorems, TLAPS

-----------------------------------------------------------------------------
(* The reservations: no step rewrites a settled row *)

Amount == [Dims -> Nat]

RowsOK == reservations \in [Experiments -> [status : RowStatus, actual : Amount,
                                            over : SUBSET Dims]]

KeepsSettled ==
  \A e \in Experiments :
    reservations[e].status = "RECONCILED" => reservations'[e] = reservations[e]

LEMMA ReserveKeepsSettled ==
  ASSUME RowsOK, NEW e \in Experiments, ReserveResources(e)
  PROVE  RowsOK' /\ KeepsSettled
BY DEF RowsOK, KeepsSettled, RowStatus, ReserveResources, ReserveNew, ReserveAgain

LEMMA ReconcileKeepsSettled ==
  ASSUME RowsOK, NEW e \in Experiments, NEW u \in Amount, ReconcileResources(e, u)
  PROVE  /\ RowsOK' /\ KeepsSettled
         /\ reservations'[e].status = "RECONCILED" /\ reservations'[e].actual = u
<1>1. OverrunDims(e, u) \subseteq Dims
  BY DEF OverrunDims
<1>2. CASE ReconcileNew(e, u)
  BY <1>1, <1>2 DEF RowsOK, KeepsSettled, RowStatus, ReconcileNew
<1>3. CASE ReconcileAgain(e, u)
  BY <1>3 DEF RowsOK, KeepsSettled, ReconcileAgain
<1>4. QED
  BY <1>2, <1>3 DEF ReconcileResources

LEMMA Amounts ==
  /\ Zero \in Amount
  /\ Usages \subseteq Amount
  /\ \A e \in Experiments : Requested[e] \in Amount
BY LedgerAssumption DEF Zero, Amount

\* A settled row of the ledger is final, whatever is reserved and reconciled
\* after it.
THEOREM SettledRowsAreFinal == Spec => SettlementIsFinal
<1>1. InitReservations => RowsOK
  BY Amounts DEF InitReservations, RowsOK, RowStatus, NoRow
<1>2. RowsOK /\ [Next]_reservations => RowsOK' /\ (KeepsSettled \/ UNCHANGED reservations)
  <2> SUFFICES ASSUME RowsOK, [Next]_reservations
      PROVE RowsOK' /\ (KeepsSettled \/ UNCHANGED reservations)
    OBVIOUS
  <2>1. ASSUME NEW e \in Experiments, ReserveResources(e) PROVE RowsOK' /\ KeepsSettled
    BY <2>1, ReserveKeepsSettled
  <2>2. ASSUME NEW e \in Experiments, NEW u \in Usages, ReconcileResources(e, u)
        PROVE  RowsOK' /\ KeepsSettled
    <3>1. u \in Amount
      BY Amounts
    <3>2. QED
      BY <2>2, <3>1, ReconcileKeepsSettled
  <2>3. CASE UNCHANGED reservations
    BY <2>3 DEF RowsOK
  <2>4. QED
    BY <2>1, <2>2, <2>3 DEF Next
<1>3. Spec => [][KeepsSettled]_reservations
  BY <1>1, <1>2, PTL DEF Spec
<1>4. QED
  BY <1>3 DEF SettlementIsFinal, KeepsSettled

-----------------------------------------------------------------------------
(* Generation *)

Statuses == {"NONE", "ABSENT", "SUCCEEDED", "INVALID_RESPONSE", "PROVIDER_FAILURE",
             "BUDGET_REFUSED", "BUDGET_EXHAUSTED"}

Places == {"idle", "reserving", "calling", "settling", "materializing", "recording", "rejecting"}

GenerationTypeOK ==
  /\ RowsOK
  /\ rows \in [Experiments -> [status : Statuses, cand : Nat, used : Amount, charged : BOOLEAN]]
  /\ call \in [Workers -> [gen : Experiments \cup {NoCall.gen}, cand : Nat, status : Statuses,
                           used : Amount, charged : BOOLEAN]]
  /\ at \in [Workers -> Places]
  /\ calls \in Nat

\* What a call in progress has behind it.
CallOK(w) ==
  /\ at[w] # "idle" =>
       /\ call[w].gen \in Experiments
       /\ IsRepair(call[w].gen) => rows[RootOf[call[w].gen]].status = "SUCCEEDED"
  /\ at[w] \in {"idle", "reserving", "calling", "settling"} => ~call[w].charged
  /\ call[w].charged => /\ reservations[call[w].gen].status = "RECONCILED"
                        /\ reservations[call[w].gen].actual = call[w].used
  /\ at[w] \in {"materializing", "recording"} /\ call[w].status = "SUCCEEDED" =>
       call[w].charged /\ reservations[call[w].gen].over = {}
  /\ at[w] = "recording" /\ call[w].status = "SUCCEEDED" => call[w].cand \in candidates

\* OneRepairPerRoot without Cardinality.
OneRepair ==
  \A g \in Experiments :
    /\ \A a, b \in RepairsOf(g) : a = b
    /\ RepairsOf(g) # {} => rows[g].status = "SUCCEEDED"

GenerationInv ==
  /\ GenerationTypeOK
  /\ \A w \in Workers : CallOK(w)
  /\ RecordsAreSettled
  /\ OneRepair

LEMMA NoCallType ==
  NoCall \in [gen : Experiments \cup {NoCall.gen}, cand : Nat, status : Statuses,
              used : Amount, charged : BOOLEAN]
  /\ ~NoCall.charged
BY Amounts DEF NoCall, Statuses

LEMMA GenerationInit == InitGeneration => GenerationInv
<1> SUFFICES ASSUME InitGeneration PROVE GenerationInv
  OBVIOUS
<1>1. GenerationTypeOK
  BY NoCallType, Amounts
  DEF InitGeneration, InitReservations, GenerationTypeOK, RowsOK, RowStatus, NoRow, Absent,
      Statuses, Places
<1>2. \A w \in Workers : CallOK(w)
  BY NoCallType DEF InitGeneration, CallOK
<1>3. RecordsAreSettled
  BY DEF InitGeneration, RecordsAreSettled, Absent
<1>4. OneRepair
  BY DEF InitGeneration, OneRepair, RepairsOf, Absent
<1>5. QED
  BY <1>1, <1>2, <1>3, <1>4 DEF GenerationInv

\* What no step of a generation takes back.
Stable ==
  /\ KeepsSettled
  /\ \A g \in Experiments : rows[g].status # "ABSENT" => rows'[g] = rows[g]
  /\ candidates \subseteq candidates'

LEMMA CallStays ==
  ASSUME NEW w \in Workers, CallOK(w), Stable, at'[w] = at[w], call'[w] = call[w]
  PROVE  CallOK(w)'
<1>1. at[w] # "idle" => call[w].gen \in Experiments /\ RootOf[call[w].gen] \in Experiments
  BY GenerationAssumption DEF CallOK
<1>2. IsRepair(call[w].gen)' <=> IsRepair(call[w].gen)
  BY DEF IsRepair
<1>3. at[w] # "idle" /\ reservations[call[w].gen].status = "RECONCILED" =>
        reservations'[call[w].gen] = reservations[call[w].gen]
  BY <1>1 DEF Stable, KeepsSettled
<1>4. at[w] # "idle" /\ rows[RootOf[call[w].gen]].status = "SUCCEEDED" =>
        rows'[RootOf[call[w].gen]] = rows[RootOf[call[w].gen]]
  BY <1>1 DEF Stable
<1>5. QED
  BY <1>1, <1>2, <1>3, <1>4 DEF CallOK, Stable

\* A step of one worker that stores no generation has only to account for its
\* own call.
LEMMA OwnCallOnly ==
  ASSUME GenerationInv, NEW w \in Workers, GenerationTypeOK', Stable, rows' = rows,
         \A v \in Workers \ {w} : at'[v] = at[v] /\ call'[v] = call[v],
         CallOK(w)'
  PROVE  GenerationInv'
<1>1. ASSUME NEW v \in Workers PROVE CallOK(v)'
  <2>1. CASE v = w
    BY <2>1
  <2>2. CASE v # w
    <3>1. CallOK(v) /\ at'[v] = at[v] /\ call'[v] = call[v]
      BY <2>2 DEF GenerationInv
    <3>2. QED
      BY <3>1, CallStays
  <2>3. QED
    BY <2>1, <2>2
<1>2. RecordsAreSettled'
  <2> SUFFICES ASSUME NEW g \in Experiments
      PROVE /\ rows'[g].charged => /\ reservations'[g].status = "RECONCILED"
                                   /\ reservations'[g].actual = rows'[g].used
            /\ rows'[g].status = "SUCCEEDED" => /\ rows'[g].charged
                                                /\ reservations'[g].over = {}
                                                /\ rows'[g].cand \in candidates'
    BY DEF RecordsAreSettled
  <2>1. QED
    BY DEF GenerationInv, RecordsAreSettled, Stable, KeepsSettled
<1>3. OneRepair'
  BY DEF GenerationInv, OneRepair, RepairsOf, IsRepair
<1>4. QED
  BY <1>1, <1>2, <1>3 DEF GenerationInv

LEMMA Dropped ==
  ASSUME GenerationInv, NEW w \in Workers, Drop(w),
         UNCHANGED <<reservations, rows, candidates, rejected, calls>>
  PROVE  GenerationInv'
<1>1. GenerationTypeOK'
  BY NoCallType DEF GenerationInv, GenerationTypeOK, RowsOK, Drop, Places
<1>2. Stable
  BY DEF Stable, KeepsSettled
<1>3. at'[w] = "idle" /\ call'[w] = NoCall
  BY DEF GenerationInv, GenerationTypeOK, Drop
<1>4. CallOK(w)'
  BY <1>3, NoCallType DEF CallOK
<1>5. \A v \in Workers \ {w} : at'[v] = at[v] /\ call'[v] = call[v]
  BY DEF GenerationInv, GenerationTypeOK, Drop
<1>6. QED
  BY <1>1, <1>2, <1>4, <1>5, OwnCallOnly

LEMMA Begun ==
  ASSUME GenerationInv, NEW w \in Workers, NEW g \in Experiments, Begin(w, g),
         IsRepair(g) => rows[RootOf[g]].status = "SUCCEEDED"
  PROVE  GenerationInv'
<1>1. GenerationTypeOK'
  <2> DEFINE Call == [gen : Experiments \cup {NoCall.gen}, cand : Nat, status : Statuses,
                      used : Amount, charged : BOOLEAN]
  <2>1. calls + 1 \in Nat
    BY DEF GenerationInv, GenerationTypeOK
  <2>2. [NoCall EXCEPT !.gen = g, !.cand = calls + 1] \in Call
    BY <2>1, NoCallType
  <2>3. call' \in [Workers -> Call] /\ calls' \in Nat
    BY <2>1, <2>2 DEF GenerationInv, GenerationTypeOK, Begin
  <2>4. QED
    BY <2>3 DEF GenerationInv, GenerationTypeOK, RowsOK, Begin, Places
<1>2. Stable
  BY DEF Stable, KeepsSettled, Begin
<1>3. at'[w] = "reserving" /\ call'[w].gen = g /\ ~call'[w].charged
  BY NoCallType DEF GenerationInv, GenerationTypeOK, Begin
<1>4. CallOK(w)'
  BY <1>3 DEF CallOK, IsRepair, Begin
<1>5. \A v \in Workers \ {w} : at'[v] = at[v] /\ call'[v] = call[v]
  BY DEF GenerationInv, GenerationTypeOK, Begin
<1>6. QED
  BY <1>1, <1>2, <1>4, <1>5, OwnCallOnly DEF Begin

LEMMA Reserved ==
  ASSUME GenerationInv, NEW w \in Workers, Reserve(w)
  PROVE  GenerationInv'
<1>1. call[w].gen \in Experiments /\ ~call[w].charged
  BY DEF GenerationInv, CallOK, Reserve
<1>2. RowsOK' /\ KeepsSettled
  BY <1>1, ReserveKeepsSettled DEF GenerationInv, GenerationTypeOK, Reserve
<1>3. GenerationTypeOK'
  BY <1>2 DEF GenerationInv, GenerationTypeOK, Reserve, Places
<1>4. Stable
  BY <1>2 DEF Stable, Reserve
<1>5. at'[w] = "calling"
  BY DEF GenerationInv, GenerationTypeOK, Reserve
<1>6. CallOK(w)'
  BY <1>1, <1>5 DEF GenerationInv, CallOK, IsRepair, Reserve
<1>7. \A v \in Workers \ {w} : at'[v] = at[v] /\ call'[v] = call[v]
  BY DEF GenerationInv, GenerationTypeOK, Reserve
<1>8. QED
  BY <1>3, <1>4, <1>6, <1>7, OwnCallOnly DEF Reserve

LEMMA ReservationRefused ==
  ASSUME GenerationInv, NEW w \in Workers, ReserveRefused(w)
  PROVE  GenerationInv'
<1>1. GenerationTypeOK'
  BY DEF GenerationInv, GenerationTypeOK, RowsOK, ReserveRefused, Places, Statuses
<1>2. Stable
  BY DEF Stable, KeepsSettled, ReserveRefused
<1>3. /\ at'[w] = "recording" /\ call'[w].status = "BUDGET_REFUSED"
      /\ call'[w].gen = call[w].gen /\ ~call'[w].charged
  BY DEF GenerationInv, GenerationTypeOK, CallOK, ReserveRefused
<1>4. CallOK(w)'
  BY <1>3 DEF GenerationInv, CallOK, IsRepair, ReserveRefused
<1>5. \A v \in Workers \ {w} : at'[v] = at[v] /\ call'[v] = call[v]
  BY DEF GenerationInv, GenerationTypeOK, ReserveRefused
<1>6. QED
  BY <1>1, <1>2, <1>4, <1>5, OwnCallOnly DEF ReserveRefused

LEMMA Answered ==
  ASSUME GenerationInv, NEW w \in Workers, NEW s \in Statuses, NEW u \in Amount,
         Answer(w, s, u)
  PROVE  GenerationInv'
<1>1. GenerationTypeOK'
  BY DEF GenerationInv, GenerationTypeOK, RowsOK, Answer, Places
<1>2. Stable
  BY DEF Stable, KeepsSettled, Answer
<1>3. at'[w] = "settling" /\ call'[w].gen = call[w].gen /\ ~call'[w].charged
  BY DEF GenerationInv, GenerationTypeOK, CallOK, Answer
<1>4. CallOK(w)'
  BY <1>3 DEF GenerationInv, CallOK, IsRepair, Answer
<1>5. \A v \in Workers \ {w} : at'[v] = at[v] /\ call'[v] = call[v]
  BY DEF GenerationInv, GenerationTypeOK, Answer
<1>6. QED
  BY <1>1, <1>2, <1>4, <1>5, OwnCallOnly DEF Answer

LEMMA Settled ==
  ASSUME GenerationInv, NEW w \in Workers, Settle(w)
  PROVE  GenerationInv'
<1> DEFINE g == call[w].gen
           status == Status(call[w].status, reservations'[g].over)
<1>1. g \in Experiments /\ call[w].used \in Amount
  BY DEF GenerationInv, GenerationTypeOK, CallOK, Settle
<1>2. /\ RowsOK' /\ KeepsSettled
      /\ reservations'[g].status = "RECONCILED" /\ reservations'[g].actual = call[w].used
  BY <1>1, ReconcileKeepsSettled DEF GenerationInv, GenerationTypeOK, Settle
<1>3. /\ status \in Statuses
      /\ status = "SUCCEEDED" => reservations'[g].over = {}
  BY DEF GenerationInv, GenerationTypeOK, Status, Statuses
<1>4. /\ call' = [call EXCEPT ![w].status = status, ![w].charged = TRUE]
      /\ at' = [at EXCEPT ![w] = IF status = "SUCCEEDED" THEN "materializing" ELSE "recording"]
      /\ UNCHANGED <<rows, candidates, rejected, calls>>
  BY DEF Settle
<1> HIDE DEF status
<1>5. GenerationTypeOK'
  BY <1>2, <1>3, <1>4 DEF GenerationInv, GenerationTypeOK, Places
<1>6. Stable
  BY <1>2, <1>4 DEF Stable
<1>7. /\ at'[w] = IF status = "SUCCEEDED" THEN "materializing" ELSE "recording"
      /\ call'[w].gen = g /\ call'[w].status = status /\ call'[w].charged
      /\ call'[w].used = call[w].used
  BY <1>4 DEF GenerationInv, GenerationTypeOK
<1>8. IsRepair(g) => rows'[RootOf[g]].status = "SUCCEEDED"
  BY <1>4 DEF GenerationInv, CallOK, Settle
<1>9. CallOK(w)'
  BY <1>1, <1>2, <1>3, <1>7, <1>8 DEF CallOK, IsRepair
<1>10. \A v \in Workers \ {w} : at'[v] = at[v] /\ call'[v] = call[v]
  BY <1>4 DEF GenerationInv, GenerationTypeOK
<1>11. QED
  BY <1>4, <1>5, <1>6, <1>9, <1>10, OwnCallOnly

LEMMA Materialized ==
  ASSUME GenerationInv, NEW w \in Workers, Materialize(w)
  PROVE  GenerationInv'
<1>1. GenerationTypeOK'
  BY DEF GenerationInv, GenerationTypeOK, RowsOK, Materialize, Places
<1>2. Stable
  BY DEF Stable, KeepsSettled, Materialize
<1>3. at'[w] = "recording" /\ call[w].cand \in candidates'
  BY DEF GenerationInv, GenerationTypeOK, Materialize
<1>4. CallOK(w)'
  BY <1>3 DEF GenerationInv, CallOK, IsRepair, Materialize
<1>5. \A v \in Workers \ {w} : at'[v] = at[v] /\ call'[v] = call[v]
  BY DEF GenerationInv, GenerationTypeOK, Materialize
<1>6. QED
  BY <1>1, <1>2, <1>4, <1>5, OwnCallOnly DEF Materialize

\* The one step that stores a generation: what the call has behind it is what
\* the record says, and the root of a repair has no other.
LEMMA Recorded ==
  ASSUME GenerationInv, NEW w \in Workers, Record(w)
  PROVE  GenerationInv'
<1> DEFINE c == call[w]
           row == [status |-> c.status, used |-> c.used, charged |-> c.charged,
                   cand   |-> IF c.status = "SUCCEEDED" THEN c.cand ELSE 0]
<1>1. /\ c.gen \in Experiments /\ RootOf[c.gen] \in Experiments
      /\ IsRepair(c.gen) => rows[RootOf[c.gen]].status = "SUCCEEDED"
  BY GenerationAssumption DEF GenerationInv, CallOK, Record
<1>2. /\ rows[c.gen].status = "ABSENT" /\ rows' = [rows EXCEPT ![c.gen] = row]
      /\ IsRepair(c.gen) => RepairsOf(RootOf[c.gen]) = {}
      /\ UNCHANGED <<reservations, candidates, rejected, calls>>
  BY DEF Record, Storable
<1>3. \/ at' = [at EXCEPT ![w] = "rejecting"] /\ call' = call
      \/ Drop(w)
  BY DEF Record
<1>4. GenerationTypeOK'
  <2>1. row \in [status : Statuses, cand : Nat, used : Amount, charged : BOOLEAN]
    BY DEF GenerationInv, GenerationTypeOK
  <2>2. RowsOK' /\ rows' \in [Experiments -> [status : Statuses, cand : Nat, used : Amount,
                                              charged : BOOLEAN]]
    BY <1>1, <1>2, <2>1 DEF GenerationInv, GenerationTypeOK, RowsOK
  <2>3. QED
    BY <1>2, <1>3, <2>2, NoCallType DEF GenerationInv, GenerationTypeOK, Drop, Places
<1>5. Stable
  BY <1>1, <1>2 DEF GenerationInv, GenerationTypeOK, Stable, KeepsSettled
<1>6. ASSUME NEW v \in Workers PROVE CallOK(v)'
  <2>1. CASE v # w
    <3>1. CallOK(v) /\ at'[v] = at[v] /\ call'[v] = call[v]
      BY <1>3, <2>1 DEF GenerationInv, GenerationTypeOK, Drop
    <3>2. QED
      BY <1>5, <3>1, CallStays
  <2>2. CASE v = w /\ Drop(w)
    BY <2>2, NoCallType DEF GenerationInv, GenerationTypeOK, CallOK, Drop
  <2>3. CASE v = w /\ at' = [at EXCEPT ![w] = "rejecting"] /\ call' = call
    <3>1. at'[w] = "rejecting" /\ call'[w] = c
      BY <2>3 DEF GenerationInv, GenerationTypeOK
    <3>2. IsRepair(c.gen) => rows'[RootOf[c.gen]].status = "SUCCEEDED"
      BY <1>1, <1>5 DEF Stable
    <3>3. QED
      BY <1>1, <1>2, <2>3, <3>1, <3>2 DEF GenerationInv, CallOK, IsRepair
  <2>4. QED
    BY <1>3, <2>1, <2>2, <2>3
<1>7. RecordsAreSettled'
  <2> SUFFICES ASSUME NEW g \in Experiments
      PROVE /\ rows'[g].charged => /\ reservations'[g].status = "RECONCILED"
                                   /\ reservations'[g].actual = rows'[g].used
            /\ rows'[g].status = "SUCCEEDED" => /\ rows'[g].charged
                                                /\ reservations'[g].over = {}
                                                /\ rows'[g].cand \in candidates'
    BY DEF RecordsAreSettled
  <2>1. CASE g = c.gen
    <3>1. rows'[g] = row
      BY <1>1, <1>2, <2>1 DEF GenerationInv, GenerationTypeOK
    <3>2. QED
      BY <1>2, <2>1, <3>1 DEF GenerationInv, CallOK, Record
  <2>2. CASE g # c.gen
    <3>1. rows'[g] = rows[g]
      BY <1>2, <2>2 DEF GenerationInv, GenerationTypeOK
    <3>2. QED
      BY <1>2, <3>1 DEF GenerationInv, RecordsAreSettled
  <2>3. QED
    BY <2>1, <2>2
<1>8. OneRepair'
  <2> SUFFICES ASSUME NEW g \in Experiments
      PROVE /\ \A a, b \in RepairsOf(g)' : a = b
            /\ RepairsOf(g)' # {} => rows'[g].status = "SUCCEEDED"
    BY DEF OneRepair
  <2>1. \A h \in Experiments : h # c.gen => rows'[h] = rows[h]
    BY <1>2 DEF GenerationInv, GenerationTypeOK
  <2>2. RepairsOf(g) # {} => rows'[g].status = "SUCCEEDED"
    BY <1>5 DEF GenerationInv, OneRepair, Stable
  <2>3. CASE IsRepair(c.gen) /\ RootOf[c.gen] = g
    <3>1. RepairsOf(g)' \subseteq {c.gen}
      BY <1>2, <2>1, <2>3 DEF RepairsOf, IsRepair
    <3>2. QED
      BY <1>1, <1>5, <2>3, <3>1 DEF Stable
  <2>4. CASE ~(IsRepair(c.gen) /\ RootOf[c.gen] = g)
    <3>1. RepairsOf(g)' = RepairsOf(g)
      BY <2>1, <2>4 DEF RepairsOf, IsRepair
    <3>2. QED
      BY <2>2, <3>1 DEF GenerationInv, OneRepair
  <2>5. QED
    BY <2>3, <2>4
<1>9. QED
  BY <1>4, <1>6, <1>7, <1>8 DEF GenerationInv

LEMMA Crashed == ASSUME GenerationInv, GenerationCrash PROVE GenerationInv'
<1>1. GenerationTypeOK'
  BY NoCallType DEF GenerationInv, GenerationTypeOK, RowsOK, GenerationCrash, Places
<1>2. \A w \in Workers : CallOK(w)'
  BY NoCallType DEF GenerationCrash, CallOK
<1>3. RecordsAreSettled' /\ OneRepair'
  BY DEF GenerationInv, GenerationCrash, RecordsAreSettled, OneRepair, RepairsOf, IsRepair
<1>4. QED
  BY <1>1, <1>2, <1>3 DEF GenerationInv

-----------------------------------------------------------------------------
(* The runner *)

Stages == {"none", "verifying", "adding", "patching", "inspecting", "build", "test",
           "evaluation", "draining", "rechecking", "reporting", "removing", "cleaning"}

RunType == [cand : Nat, stage : Stages, mechanical : BOOLEAN]

\* What a run may have on disk, registered and running where it is, unless an
\* earlier run of its candidate was interrupted.
Owns(w) ==
  LET c == run[w].cand
      stage == run[w].stage
  IN stage # "none" =>
       /\ c \in dirs => stage \notin {"verifying", "adding"} \/ c \in interrupted
       /\ c \in metadata =>
            stage \notin {"verifying", "adding", "cleaning"} \/ c \in interrupted
       /\ c \in children => stage \in Command
       /\ c \in holders => stage \in Command \cup {"draining"}

\* No two workers run one candidate.
Disjoint ==
  \A v, w \in Runners :
    run[v].stage # "none" /\ run[w].stage # "none" /\ run[v].cand = run[w].cand => v = w

RunnerInv ==
  /\ run \in [Runners -> RunType]
  /\ \A w \in Runners : Owns(w)
  /\ Disjoint
  /\ RunsCleanUp

LEMMA RunnerInit == InitRunner => RunnerInv
BY DEF InitRunner, RunnerInv, RunType, Stages, NoRun, Owns, Disjoint, RunsCleanUp, Running, Waiting

\* The step of worker w's run takes it to a stage and touches no other run.
MovesTo(w, s) ==
  /\ run' \in [Runners -> RunType]
  /\ run'[w].stage = s /\ run'[w].cand = run[w].cand
  /\ \A v \in Runners \ {w} : run'[v] = run[v]

LEMMA Going ==
  ASSUME RunnerInv, NEW w \in Runners, NEW s \in Stages, Goto(w, s)
  PROVE  MovesTo(w, s)
BY DEF RunnerInv, RunType, Goto, MovesTo

LEMMA Leaving ==
  ASSUME RunnerInv, NEW w \in Runners, NEW s \in Stages, NEW v, LeaveTo(w, s, v)
  PROVE  MovesTo(w, s)
<1> DEFINE m == v \in Mechanical
<1>1. m \in BOOLEAN
  OBVIOUS
<1>2. run' = [run EXCEPT ![w].stage = s, ![w].mechanical = m]
  BY DEF LeaveTo
<1> HIDE DEF m
<1>3. QED
  BY <1>1, <1>2 DEF RunnerInv, RunType, MovesTo

\* A step of a run that goes on.
LEMMA RunGoesOn ==
  ASSUME RunnerInv, NEW w \in Runners, NEW s \in Stages, MovesTo(w, s),
         run[w].stage # "none", s # "none",
         dirs' \subseteq dirs \cup {run[w].cand},
         metadata' \subseteq metadata \cup {run[w].cand},
         children' \subseteq children \cup {run[w].cand},
         holders' \subseteq holders \cup {run[w].cand}, interrupted \subseteq interrupted',
         Owns(w)'
  PROVE  RunnerInv'
<1>1. /\ run' \in [Runners -> RunType]
      /\ run'[w].stage = s /\ run'[w].cand = run[w].cand
      /\ \A v \in Runners \ {w} : run'[v] = run[v]
  BY DEF MovesTo
<1>2. ASSUME NEW v \in Runners PROVE Owns(v)'
  <2>1. CASE v # w /\ run[v].stage # "none"
    <3>1. run[v].cand # run[w].cand
      BY <2>1 DEF RunnerInv, Disjoint
    <3>2. Owns(v)
      BY DEF RunnerInv
    <3>3. QED
      BY <1>1, <2>1, <3>1, <3>2 DEF Owns
  <2>2. CASE v # w /\ run[v].stage = "none"
    BY <1>1, <2>2 DEF Owns
  <2>3. QED
    BY <2>1, <2>2
<1>3. Disjoint'
  BY <1>1 DEF RunnerInv, Disjoint
<1>4. Running' = Running
  BY <1>1 DEF Running
<1>5. run[w].cand \in Running
  BY DEF Running
<1>6. (children \cup holders)' \subseteq Waiting'
  <2> SUFFICES ASSUME NEW x \in children' \cup holders' PROVE x \in Waiting'
    OBVIOUS
  <2>1. CASE x = run[w].cand
    BY <1>1, <2>1 DEF Owns, Waiting
  <2>2. CASE x # run[w].cand
    <3>1. x \in Waiting
      BY <2>2 DEF RunnerInv, RunsCleanUp
    <3>2. PICK v \in Runners : run[v].cand = x /\ run[v].stage \in Command \cup {"draining"}
      BY <3>1 DEF Waiting
    <3>3. QED
      BY <1>1, <2>2, <3>2 DEF Waiting
  <2>3. QED
    BY <2>1, <2>2
<1>7. QED
  BY <1>1, <1>2, <1>3, <1>4, <1>5, <1>6 DEF RunnerInv, RunsCleanUp

\* The step a run ends with, if it leaves nothing behind.
LEMMA RunEnds ==
  ASSUME RunnerInv, NEW w \in Runners, run[w].stage \in {"verifying", "cleaning"},
         run' = [run EXCEPT ![w] = NoRun],
         dirs' \subseteq dirs, metadata' \subseteq metadata, UNCHANGED <<children, holders>>,
         interrupted \subseteq interrupted',
         run[w].cand \in dirs' \cup metadata' => run[w].cand \in interrupted'
  PROVE  RunnerInv'
<1>1. /\ run' \in [Runners -> RunType] /\ run'[w] = NoRun
      /\ \A v \in Runners \ {w} : run'[v] = run[v]
  BY DEF RunnerInv, RunType, NoRun, Stages
<1>2. \A v \in Runners : Owns(v)'
  BY <1>1 DEF RunnerInv, Owns, NoRun
<1>3. Disjoint'
  BY <1>1 DEF RunnerInv, Disjoint, NoRun
<1>4. Running \subseteq Running' \cup {run[w].cand}
  BY <1>1 DEF Running
<1>5. Waiting \subseteq Waiting'
  BY <1>1 DEF Waiting, Command
<1>6. QED
  BY <1>1, <1>2, <1>3, <1>4, <1>5 DEF RunnerInv, RunsCleanUp

LEMMA RunStarts ==
  ASSUME RunnerInv, NEW w \in Runners, NEW c \in Nat, c \notin Running, StartRun(w, c)
  PROVE  RunnerInv'
<1>1. /\ run' \in [Runners -> RunType]
      /\ run'[w] = [cand |-> c, stage |-> "verifying", mechanical |-> FALSE]
      /\ \A v \in Runners \ {w} : run'[v] = run[v]
      /\ UNCHANGED <<dirs, metadata, children, holders, interrupted>>
  BY DEF RunnerInv, RunType, StartRun, NoRun, Stages, processes
<1>2. /\ c \in dirs \cup metadata => c \in interrupted
      /\ c \notin children \cup holders
  <2>1. Waiting \subseteq Running
    BY DEF Waiting, Running, Command
  <2>2. QED
    BY <2>1 DEF RunnerInv, RunsCleanUp
<1>3. ASSUME NEW v \in Runners PROVE Owns(v)'
  <2>1. CASE v = w
    BY <1>1, <1>2, <2>1 DEF Owns
  <2>2. CASE v # w
    BY <1>1, <2>2 DEF RunnerInv, Owns
  <2>3. QED
    BY <2>1, <2>2
<1>4. \A v \in Runners : run[v].stage # "none" => run[v].cand # c
  BY DEF Running
<1>5. Disjoint'
  BY <1>1, <1>4 DEF RunnerInv, Disjoint
<1>6. Running \subseteq Running' /\ Waiting \subseteq Waiting'
  BY <1>1 DEF Running, Waiting, Command, StartRun
<1>7. QED
  BY <1>1, <1>3, <1>5, <1>6 DEF RunnerInv, RunsCleanUp

LEMMA RunCrashes == ASSUME RunnerInv, RunnerCrash PROVE RunnerInv'
<1>1. \A w \in Runners : run'[w] = NoRun
  BY DEF RunnerCrash
<1>2. run' \in [Runners -> RunType]
  BY DEF RunnerCrash, RunType, NoRun, Stages
<1>3. Disjoint' /\ \A w \in Runners : Owns(w)'
  BY <1>1 DEF Disjoint, Owns, NoRun
<1>4. RunsCleanUp'
  BY DEF RunnerInv, RunsCleanUp, RunnerCrash, Running
<1>5. QED
  BY <1>2, <1>3, <1>4 DEF RunnerInv

LEMMA StrayGone == ASSUME RunnerInv, NEW c, StrayExits(c) PROVE RunnerInv'
<1>1. Running' = Running /\ Waiting' = Waiting
  BY DEF Running, Waiting, StrayExits
<1>2. QED
  BY <1>1 DEF RunnerInv, StrayExits, Owns, Disjoint, RunsCleanUp

\* Moving on without touching the disk, the repository or a process waited for.
LEMMA RunMoves ==
  ASSUME RunnerInv, NEW w \in Runners, NEW s \in Stages \ {"none", "verifying"},
         run[w].stage \notin {"none", "draining"}, MovesTo(w, s),
         UNCHANGED <<dirs, metadata, children, holders, interrupted>>,
         s = "adding" => run[w].stage = "verifying",
         s = "cleaning" => FALSE,
         run[w].stage \in Command => ~Awaited(run[w].cand)
  PROVE  RunnerInv'
<1>1. Owns(w)'
  BY DEF RunnerInv, Owns, MovesTo, Awaited
<1>2. QED
  BY <1>1, RunGoesOn

LEMMA Verified ==
  ASSUME RunnerInv, NEW w \in Runners, Verify(w)
  PROVE  RunnerInv'
<1>1. /\ run[w].stage = "verifying" /\ Owns(w)
      /\ UNCHANGED <<dirs, metadata, children, holders, interrupted>>
  BY DEF RunnerInv, Verify, processes
<1>2. CASE Goto(w, "adding")
  BY <1>1, <1>2, Going, RunMoves DEF Stages, Command
<1>3. ASSUME NEW m, Return(w, m) PROVE RunnerInv'
  BY <1>1, <1>3, RunEnds DEF Return, Owns, Command
<1>4. QED
  BY <1>2, <1>3 DEF Verify

LEMMA Added ==
  ASSUME RunnerInv, NEW w \in Runners, Add(w)
  PROVE  RunnerInv'
<1> DEFINE c == run[w].cand
<1>1. /\ run[w].stage = "adding" /\ Owns(w)
      /\ dirs' = dirs \cup {c} /\ UNCHANGED <<children, holders>>
  BY DEF RunnerInv, Add, processes
<1>2. ASSUME NEW s \in {"patching", "cleaning"}, MovesTo(w, s), interrupted \subseteq interrupted',
             metadata' \subseteq metadata \cup {c},
             s = "cleaning" => metadata' = metadata \/ c \in interrupted'
      PROVE  RunnerInv'
  <2>1. Owns(w)'
    BY <1>1, <1>2 DEF Owns, MovesTo, Command
  <2>2. QED
    BY <1>1, <1>2, <2>1, RunGoesOn DEF Stages
<1>3. CASE Goto(w, "patching") /\ metadata' = metadata \cup {c} /\ UNCHANGED interrupted
  BY <1>2, <1>3, Going DEF Stages
<1>4. CASE (\E v : LeaveTo(w, "cleaning", v)) /\ UNCHANGED <<metadata, interrupted>>
  BY <1>2, <1>4, Leaving DEF Stages
<1>5. CASE /\ LeaveTo(w, "cleaning", "TIMEOUT")
           /\ metadata' = metadata \cup {c} /\ interrupted' = interrupted \cup {c}
  BY <1>2, <1>5, Leaving DEF Stages
<1>6. QED
  BY <1>3, <1>4, <1>5 DEF Add

LEMMA MovedOn ==
  ASSUME RunnerInv, NEW w \in Runners,
         Patch(w) \/ Inspect(w) \/ Recheck(w) \/ Report(w)
  PROVE  RunnerInv'
<1>1. /\ run[w].stage \notin Command \cup {"none", "draining"}
      /\ UNCHANGED <<dirs, metadata, children, holders, interrupted>>
  BY DEF Patch, Inspect, Recheck, Report, Command, processes
<1>2. ASSUME NEW s \in {"inspecting", "build", "reporting"}, Goto(w, s) PROVE RunnerInv'
  BY <1>1, <1>2, Going, RunMoves DEF Stages
<1>3. ASSUME NEW v, Leave(w, v) PROVE RunnerInv'
  BY <1>1, <1>3, Leaving, RunMoves DEF Stages, Leave
<1>4. QED
  BY <1>2, <1>3 DEF Patch, Inspect, Recheck, Report

LEMMA CommandStarted ==
  ASSUME RunnerInv, NEW w \in Runners, StartCommand(w)
  PROVE  RunnerInv'
<1>1. /\ run[w].stage \in Command /\ run[w].stage \notin {"none", "draining"}
      /\ ~Awaited(run[w].cand) /\ UNCHANGED <<dirs, metadata, holders, interrupted>>
  BY DEF StartCommand, Command
<1>2. CASE children' = children \cup {run[w].cand} /\ UNCHANGED run
  <2>1. MovesTo(w, run[w].stage) /\ run[w].stage \in Stages
    BY <1>2 DEF RunnerInv, RunType, MovesTo
  <2>2. Owns(w)'
    BY <1>1, <1>2 DEF RunnerInv, Owns
  <2>3. QED
    BY <1>1, <1>2, <2>1, <2>2, RunGoesOn
<1>3. ASSUME NEW v, Leave(w, v), UNCHANGED children PROVE RunnerInv'
  BY <1>1, <1>3, Leaving, RunMoves DEF Stages, Leave
<1>4. QED
  BY <1>2, <1>3 DEF StartCommand

\* The command is still waited for.
LEMMA CommandGoesOn ==
  ASSUME RunnerInv, NEW w \in Runners, Spawn(w) \/ Outlive(w)
  PROVE  RunnerInv'
<1>1. /\ run[w].stage \in Command /\ run[w].stage # "none"
      /\ UNCHANGED <<run, dirs, metadata, interrupted>>
      /\ children' \subseteq children /\ holders' \subseteq holders \cup {run[w].cand}
  BY DEF Spawn, Outlive, LetGo, Command
<1>2. MovesTo(w, run[w].stage) /\ run[w].stage \in Stages
  BY <1>1 DEF RunnerInv, RunType, MovesTo
<1>3. Owns(w)'
  BY <1>1 DEF RunnerInv, Owns
<1>4. QED
  BY <1>1, <1>2, <1>3, RunGoesOn

\* Neither the command's process nor a holder of its output is left when the
\* run goes on from it.
LEMMA CommandEnded ==
  ASSUME RunnerInv, NEW w \in Runners, EndCommand(w) \/ KillCommand(w) \/ Drain(w)
  PROVE  RunnerInv'
<1>1. /\ run[w].stage \in Command \cup {"draining"} /\ run[w].stage # "none" /\ Owns(w)
      /\ children' \subseteq children /\ holders' \subseteq holders
      /\ UNCHANGED <<dirs, metadata, interrupted>>
  BY DEF RunnerInv, EndCommand, KillCommand, Drain, LetGo, processes, Command
<1>2. run[w].cand \notin children'
  BY <1>1 DEF Owns, EndCommand, KillCommand, Drain, processes, Command
<1>3. ASSUME NEW s \in {"test", "evaluation", "rechecking", "removing", "draining"},
             MovesTo(w, s), s # "draining" => run[w].cand \notin holders'
      PROVE  RunnerInv'
  <2>1. Owns(w)'
    BY <1>1, <1>2, <1>3 DEF Owns, MovesTo, Command
  <2>2. QED
    BY <1>1, <1>3, <2>1, RunGoesOn DEF Stages
<1>4. CASE EndCommand(w)
  <2>1. run[w].cand \notin holders' /\ run[w].stage \in Command
    BY <1>4 DEF EndCommand, LetGo
  <2>2. AfterCommand[run[w].stage] \in {"test", "evaluation", "rechecking"}
    BY <2>1 DEF AfterCommand, Command
  <2>3. Goto(w, AfterCommand[run[w].stage]) => RunnerInv'
    BY <1>3, <2>1, <2>2, Going DEF Stages
  <2>4. ASSUME NEW v, Leave(w, v) PROVE RunnerInv'
    BY <1>3, <2>1, <2>4, Leaving DEF Leave, Stages
  <2>5. QED
    BY <1>4, <2>3, <2>4 DEF EndCommand
<1>5. CASE KillCommand(w)
  BY <1>3, <1>5, Going DEF KillCommand, Stages
<1>6. CASE Drain(w)
  <2>1. run[w].cand \notin holders' /\ Leave(w, "TIMEOUT")
    BY <1>6 DEF Drain, LetGo
  <2>2. QED
    BY <1>3, <2>1, Leaving DEF Leave, Stages
<1>7. QED
  BY <1>4, <1>5, <1>6

LEMMA Removed ==
  ASSUME RunnerInv, NEW w \in Runners, Remove(w)
  PROVE  RunnerInv'
<1> DEFINE c == run[w].cand
<1>1. /\ run[w].stage = "removing" /\ Owns(w) /\ Goto(w, "cleaning")
      /\ UNCHANGED <<children, holders>>
      /\ \/ dirs' = dirs \ {c} /\ metadata' = (metadata \cap dirs) \ {c} /\ UNCHANGED interrupted
         \/ interrupted' = interrupted \cup {c} /\ UNCHANGED <<dirs, metadata>>
  BY DEF RunnerInv, Remove, processes
<1>2. MovesTo(w, "cleaning")
  BY <1>1, Going DEF Stages
<1>3. Owns(w)'
  BY <1>1, <1>2 DEF Owns, MovesTo, Command
<1>4. QED
  BY <1>1, <1>2, <1>3, RunGoesOn DEF Stages

LEMMA Cleaned ==
  ASSUME RunnerInv, NEW w \in Runners, Clean(w)
  PROVE  RunnerInv'
<1> DEFINE c == run[w].cand
<1>1. /\ run[w].stage = "cleaning" /\ Owns(w) /\ UNCHANGED <<metadata, children, holders>>
      /\ run' = [run EXCEPT ![w] = NoRun]
      /\ \/ dirs' = dirs \ {c} /\ UNCHANGED interrupted
         \/ interrupted' = interrupted \cup {c} /\ UNCHANGED dirs
  BY DEF RunnerInv, Clean, Return, processes
<1>2. QED
  BY <1>1, RunEnds DEF Owns, Command

-----------------------------------------------------------------------------
(* The gate *)

GateStages == {"none", "acquiring", "preflight", "baseline", "block", "reconciling",
               "releasing", "returning"}

GateTypeOK ==
  /\ gate \in [stage : GateStages, failed : BOOLEAN, ran : BOOLEAN,
               counted : BOOLEAN, disturbed : BOOLEAN]
  /\ low \in BOOLEAN /\ logged \in Nat

\* A disturbance of the session is in the log when the block is over, and the
\* session goes on without a failure only if the log has none.
GateInv ==
  /\ GateTypeOK
  /\ gate.disturbed => Low
  /\ gate.stage \in {"releasing", "returning"} /\ ~gate.failed => ~gate.disturbed
  /\ gate.stage \in {"reconciling", "releasing", "returning"} /\ ~gate.failed /\ gate.ran =>
       gate.counted
  /\ gate.stage \in {"acquiring", "preflight", "baseline"} => ~gate.ran
  /\ AdmittedRanAwake

LEMMA GateInit == InitGate => GateInv
<1> SUFFICES ASSUME InitGate PROVE GateInv
  OBVIOUS
<1>1. gate = [stage |-> "none", failed |-> FALSE, ran |-> FALSE, counted |-> TRUE,
              disturbed |-> FALSE]
  BY DEF InitGate, NoSession
<1>2. GateTypeOK
  <2>1. gate \in [stage : GateStages, failed : BOOLEAN, ran : BOOLEAN,
                  counted : BOOLEAN, disturbed : BOOLEAN]
    BY <1>1 DEF GateStages
  <2>2. low \in BOOLEAN /\ logged \in Nat
    BY DEF InitGate
  <2>3. QED
    BY <2>1, <2>2 DEF GateTypeOK
<1>3. AdmittedRanAwake
  BY DEF InitGate, AdmittedRanAwake
<1>4. QED
  BY <1>1, <1>2, <1>3 DEF GateInv

LEMMA SessionStarts == ASSUME GateInv, StartSession PROVE GateInv'
BY DEF GateInv, GateTypeOK, GateStages, StartSession, NoSession, Low, AdmittedRanAwake

LEMMA HostChanges == ASSUME GateInv, Transition PROVE GateInv'
<1>1. GateTypeOK'
  <2> DEFINE noticed == gate.stage \in {"acquiring", "preflight", "baseline", "block"}
             d == gate.disturbed \/ noticed
  <2>1. d \in BOOLEAN
    OBVIOUS
  <2>2. gate' = [gate EXCEPT !.disturbed = d]
    BY DEF Transition
  <2> HIDE DEF d
  <2>3. gate' \in [stage : GateStages, failed : BOOLEAN, ran : BOOLEAN,
                   counted : BOOLEAN, disturbed : BOOLEAN]
    BY <2>1, <2>2 DEF GateInv, GateTypeOK
  <2>4. low' \in BOOLEAN /\ logged' \in Nat
    BY DEF GateInv, GateTypeOK, Transition
  <2>5. QED
    BY <2>3, <2>4 DEF GateInv, GateTypeOK
<1>2. Low'
  BY DEF GateInv, GateTypeOK, Transition, Low
<1>3. /\ gate'.stage = gate.stage /\ gate'.failed = gate.failed /\ gate'.ran = gate.ran
      /\ gate'.counted = gate.counted
      /\ gate'.disturbed => gate.disturbed \/ gate.stage \in {"acquiring", "preflight",
                                                              "baseline", "block"}
  BY DEF GateInv, GateTypeOK, Transition
<1>4. AdmittedRanAwake'
  BY DEF GateInv, Transition, AdmittedRanAwake
<1>5. QED
  BY <1>1, <1>2, <1>3, <1>4 DEF GateInv

LEMMA BeforeTheBlock ==
  ASSUME GateInv, Acquire \/ Preflight \/ Baseline
  PROVE  GateInv'
<1>1. AdmittedRanAwake' /\ Low' = Low
  BY DEF GateInv, Acquire, Preflight, Baseline, AdmittedRanAwake, Low
<1>2. CASE Acquire
  BY <1>1, <1>2 DEF GateInv, GateTypeOK, GateStages, Acquire, Enter, Fail
<1>3. CASE Preflight
  BY <1>1, <1>3 DEF GateInv, GateTypeOK, GateStages, Preflight, Enter, Fail
<1>4. CASE Baseline
  BY <1>1, <1>4 DEF GateInv, GateTypeOK, GateStages, Baseline, Enter, Fail
<1>5. QED
  BY <1>2, <1>3, <1>4

LEMMA AfterTheBlock ==
  ASSUME GateInv, BlockReturns \/ BlockRaises \/ Reconcile \/ Release
  PROVE  GateInv'
<1>1. /\ UNCHANGED <<low, logged, receipts>>
      /\ AdmittedRanAwake' /\ Low' = Low
  <2>1. UNCHANGED <<low, logged, receipts>>
    BY DEF BlockReturns, BlockRaises, Reconcile, Release
  <2>2. QED
    BY <2>1 DEF GateInv, AdmittedRanAwake, Low
<1>2. CASE BlockReturns
  <2>1. PICK f \in BOOLEAN :
          gate' = [gate EXCEPT !.stage = "reconciling", !.failed = f, !.counted = TRUE]
    BY <1>2 DEF BlockReturns
  <2>2. GateTypeOK'
    BY <1>1, <2>1 DEF GateInv, GateTypeOK, GateStages
  <2>3. /\ gate'.stage = "reconciling" /\ gate'.counted
        /\ gate'.disturbed = gate.disturbed
    BY <2>1 DEF GateInv, GateTypeOK
  <2>4. QED
    BY <1>1, <2>2, <2>3 DEF GateInv
<1>3. CASE BlockRaises
  BY <1>1, <1>3 DEF GateInv, GateTypeOK, GateStages, BlockRaises, Fail
<1>4. CASE Reconcile
  BY <1>1, <1>4 DEF GateInv, GateTypeOK, GateStages, Reconcile, Enter, Fail
<1>5. CASE Release
  BY <1>1, <1>5 DEF GateInv, GateTypeOK, GateStages, Release, Enter, Fail
<1>6. QED
  BY <1>2, <1>3, <1>4, <1>5

LEMMA SessionReturns == ASSUME GateInv, ReturnReceipt PROVE GateInv'
<1> DEFINE receipt == [admitted |-> ~gate.failed, ran |-> gate.ran, counted |-> gate.counted,
                       disturbed |-> gate.disturbed]
<1>1. /\ gate.stage = "returning" /\ gate' = NoSession /\ receipts' = receipts \cup {receipt}
      /\ UNCHANGED <<low, logged>>
  BY DEF ReturnReceipt
<1>2. /\ receipt.admitted => ~receipt.disturbed /\ (receipt.ran => receipt.counted)
  BY <1>1 DEF GateInv, GateTypeOK
<1>3. AdmittedRanAwake'
  BY <1>1, <1>2 DEF GateInv, AdmittedRanAwake
<1>4. GateTypeOK' /\ ~gate'.disturbed /\ gate'.stage = "none"
  BY <1>1 DEF GateInv, GateTypeOK, GateStages, NoSession
<1>5. QED
  BY <1>3, <1>4 DEF GateInv

LEMMA GateCrashes == ASSUME GateInv, GateCrash PROVE GateInv'
BY DEF GateInv, GateTypeOK, GateStages, GateCrash, NoSession, AdmittedRanAwake

-----------------------------------------------------------------------------
(* The pipeline *)

PipelineInv == GenerationInv /\ RunnerInv /\ GateInv

LEMMA PipelineInit == InitPipeline => PipelineInv
BY GenerationInit, RunnerInit, GateInit DEF InitPipeline, PipelineInv

LEMMA GenerationIdle == ASSUME GenerationInv, UNCHANGED generationVars PROVE GenerationInv'
<1>1. GenerationTypeOK'
  BY DEF GenerationInv, GenerationTypeOK, RowsOK, generationVars
<1>2. Stable /\ UNCHANGED <<at, call>>
  BY DEF Stable, KeepsSettled, generationVars
<1>3. \A w \in Workers : CallOK(w)'
  BY <1>2, CallStays DEF GenerationInv
<1>4. RecordsAreSettled' /\ OneRepair'
  BY DEF GenerationInv, generationVars, RecordsAreSettled, OneRepair, RepairsOf, IsRepair
<1>5. QED
  BY <1>1, <1>3, <1>4 DEF GenerationInv

LEMMA RunnerIdle == ASSUME RunnerInv, UNCHANGED runnerVars PROVE RunnerInv'
BY DEF RunnerInv, runnerVars, processes, Owns, Disjoint, RunsCleanUp, Running, Waiting

LEMMA GateIdle == ASSUME GateInv, UNCHANGED gateVars PROVE GateInv'
BY DEF GateInv, GateTypeOK, gateVars, Low, AdmittedRanAwake

LEMMA GenerateStep ==
  ASSUME PipelineInv, NEW w \in Workers, Generate(w)
  PROVE  PipelineInv'
<1>1. RunnerInv' /\ GateInv'
  BY RunnerIdle, GateIdle DEF PipelineInv, Generate
<1>2. GenerationInv
  BY DEF PipelineInv
<1>3. ASSUME NEW g \in Experiments, Propose(w, g) \/ Repair(w, g, Broken) PROVE GenerationInv'
  BY <1>2, <1>3, Begun DEF Propose, Repair
<1>4. ASSUME NEW u \in Usages, NEW s \in {"SUCCEEDED", "INVALID_RESPONSE", "PROVIDER_FAILURE"},
             Answer(w, s, u)
      PROVE  GenerationInv'
  <2>1. u \in Amount /\ s \in Statuses
    BY Amounts DEF Statuses
  <2>2. QED
    BY <1>2, <1>4, <2>1, Answered
<1>5. ASSUME AnswerUnmetered(w) PROVE GenerationInv'
  <2>1. call[w].gen \in Experiments
    BY <1>2, <1>5 DEF GenerationInv, CallOK, AnswerUnmetered, Answer
  <2>2. PICK u \in Amount : u = Requested[call[w].gen]
    BY <2>1, Amounts
  <2>3. Answer(w, "PROVIDER_FAILURE", u) /\ "PROVIDER_FAILURE" \in Statuses
    BY <1>5, <2>2 DEF AnswerUnmetered, Answer, Statuses
  <2>4. QED
    BY <1>2, <2>3, Answered
<1>6. ASSUME ProviderRaises(w) \/ SettleRaises(w) \/ RecordRaises(w) PROVE GenerationInv'
  <2>1. Drop(w) /\ UNCHANGED <<reservations, rows, candidates, rejected, calls>>
    BY <1>6 DEF ProviderRaises, SettleRaises, RecordRaises
  <2>2. QED
    BY <1>2, <2>1, Dropped
<1>7. ASSUME Reject(w) PROVE GenerationInv'
  <2>1. GenerationTypeOK'
    BY <1>2, <1>7, NoCallType DEF GenerationInv, GenerationTypeOK, RowsOK, Reject, Drop, Places
  <2>2. Stable
    BY <1>7 DEF Stable, KeepsSettled, Reject
  <2>3. at'[w] = "idle" /\ ~call'[w].charged
    BY <1>2, <1>7, NoCallType DEF GenerationInv, GenerationTypeOK, Reject, Drop
  <2>4. CallOK(w)'
    BY <2>3 DEF CallOK
  <2>5. \A v \in Workers \ {w} : at'[v] = at[v] /\ call'[v] = call[v]
    BY <1>2, <1>7 DEF GenerationInv, GenerationTypeOK, Reject, Drop
  <2>6. QED
    BY <1>2, <1>7, <2>1, <2>2, <2>4, <2>5, OwnCallOnly DEF Reject
<1>8. Reserve(w) \/ ReserveRefused(w) => GenerationInv'
  BY <1>2, Reserved, ReservationRefused
<1>9. Settle(w) \/ Materialize(w) \/ Record(w) => GenerationInv'
  BY <1>2, Settled, Materialized, Recorded
<1>10. GenerationInv'
  BY <1>3, <1>4, <1>5, <1>6, <1>7, <1>8, <1>9 DEF Generate
<1>11. QED
  BY <1>1, <1>10 DEF PipelineInv

LEMMA EvaluateStep ==
  ASSUME PipelineInv, NEW w \in Workers, Evaluate(w)
  PROVE  PipelineInv'
<1>1. w \in Runners /\ RunnerInv
  BY SameWorkers DEF PipelineInv
<1>2. GenerationInv' /\ GateInv'
  BY GenerationIdle, GateIdle DEF PipelineInv, Evaluate
<1>3. ASSUME NEW c \in Known, c \notin Running, StartRun(w, c) PROVE RunnerInv'
  <2>1. c \in Nat
    BY DEF Known, PipelineInv, GenerationInv, GenerationTypeOK
  <2>2. QED
    BY <1>1, <1>3, <2>1, RunStarts
<1>4. Verify(w) \/ Add(w) \/ Remove(w) \/ Clean(w) => RunnerInv'
  BY <1>1, Verified, Added, Removed, Cleaned
<1>5. Patch(w) \/ Inspect(w) \/ Recheck(w) \/ Report(w) => RunnerInv'
  BY <1>1, MovedOn
<1>6. \/ StartCommand(w) \/ Spawn(w) \/ Outlive(w)
      \/ EndCommand(w) \/ KillCommand(w) \/ Drain(w)
      => RunnerInv'
  BY <1>1, CommandStarted, CommandGoesOn, CommandEnded
<1>7. RunnerInv'
  BY <1>3, <1>4, <1>5, <1>6 DEF Evaluate
<1>8. QED
  BY <1>2, <1>7 DEF PipelineInv

LEMMA GateStep ==
  ASSUME PipelineInv, Gate
  PROVE  PipelineInv'
<1>1. GenerationInv' /\ RunnerInv'
  BY GenerationIdle, RunnerIdle DEF PipelineInv, Gate
<1>2. CASE StartSession
  BY <1>1, <1>2, SessionStarts DEF PipelineInv
<1>3. CASE Acquire \/ Preflight \/ Baseline
  BY <1>1, <1>3, BeforeTheBlock DEF PipelineInv
<1>4. CASE BlockReturns \/ BlockRaises \/ Reconcile \/ Release
  BY <1>1, <1>4, AfterTheBlock DEF PipelineInv
<1>5. CASE Transition \/ ReturnReceipt
  BY <1>1, <1>5, HostChanges, SessionReturns DEF PipelineInv
<1>6. QED
  BY <1>2, <1>3, <1>4, <1>5 DEF Gate

LEMMA OtherSteps ==
  ASSUME PipelineInv, Orphan \/ Crash \/ UNCHANGED pipelineVars
  PROVE  PipelineInv'
<1>1. CASE Orphan
  BY <1>1, GenerationIdle, GateIdle, StrayGone DEF Orphan, PipelineInv
<1>2. CASE Crash
  BY <1>2, Crashed, RunCrashes, GateCrashes DEF Crash, PipelineInv
<1>3. CASE UNCHANGED pipelineVars
  BY <1>3, GenerationIdle, RunnerIdle, GateIdle DEF pipelineVars, PipelineInv
<1>4. QED
  BY <1>1, <1>2, <1>3

LEMMA PipelineStep == PipelineInv /\ [PipelineNext]_pipelineVars => PipelineInv'
BY GenerateStep, EvaluateStep, GateStep, OtherSteps DEF PipelineNext

\* The strengthening: what each call, run and session has behind it holds in
\* every reachable state.
THEOREM PipelineInvariant == PipelineSpec => []PipelineInv
BY PipelineInit, PipelineStep, PTL DEF PipelineSpec

\* However many callers repair one generation at once, the ledger has at most
\* one repair of it, and it repairs a proposal that succeeded.
THEOREM OneRepairHolds == PipelineSpec => []OneRepairPerRoot
<1>1. PipelineInv => OneRepairPerRoot
  <2> SUFFICES ASSUME PipelineInv, NEW g \in Experiments
      PROVE /\ Cardinality(RepairsOf(g)) <= 1
            /\ RepairsOf(g) # {} => rows[g].status = "SUCCEEDED"
    BY DEF OneRepairPerRoot
  <2>1. /\ \A a, b \in RepairsOf(g) : a = b
        /\ RepairsOf(g) # {} => rows[g].status = "SUCCEEDED"
    BY DEF PipelineInv, GenerationInv, OneRepair
  <2>2. CASE RepairsOf(g) = {}
    BY <2>1, <2>2, FS_EmptySet
  <2>3. ASSUME NEW a \in RepairsOf(g)
        PROVE  Cardinality(RepairsOf(g)) <= 1
    <3>1. RepairsOf(g) = {a}
      BY <2>1, <2>3
    <3>2. QED
      BY <3>1, FS_Singleton
  <2>4. QED
    BY <2>1, <2>2, <2>3
<1>2. QED
  BY <1>1, PipelineInvariant, PTL

\* A generation on record was charged what the record says, and succeeded only
\* within its budget and with its candidate stored.
THEOREM RecordsSettledHolds == PipelineSpec => []RecordsAreSettled
<1>1. PipelineInv => RecordsAreSettled
  BY DEF PipelineInv, GenerationInv
<1>2. QED
  BY <1>1, PipelineInvariant, PTL

\* A run leaves no checkout or registered worktree, whichever way it ends,
\* unless it died or git or the file system failed it, and gives it up only
\* when no process it waits for is left.
THEOREM CleanUpHolds == PipelineSpec => []RunsCleanUp
<1>1. PipelineInv => RunsCleanUp
  BY DEF PipelineInv, RunnerInv
<1>2. QED
  BY <1>1, PipelineInvariant, PTL

\* A session is admitted only if the host stayed awake until its block was
\* over, and only if the block came to its end.
THEOREM AdmissionHolds == PipelineSpec => []AdmittedRanAwake
<1>1. PipelineInv => AdmittedRanAwake
  BY DEF PipelineInv, GateInv
<1>2. QED
  BY <1>1, PipelineInvariant, PTL
=============================================================================
