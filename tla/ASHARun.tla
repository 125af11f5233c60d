------------------------------- MODULE ASHARun -------------------------------
(***************************************************************************)
(* A run of ASHARunner (src/discoveryos/runtime/asha.py) on the pool of    *)
(* ComputeFabric (runtime/scheduler.py): trials wait for a permit, are     *)
(* evaluated or time out, and every wait of the runner collects whatever   *)
(* has ended.  Evidence and decision records outlive a crash; the          *)
(* runner's own state does not, and the run is then started again under    *)
(* the same run_id.  The runner handles a batch without awaiting, so no    *)
(* evaluation is recorded while one is being handled.  Within a start      *)
(* nothing reads a decision record, and a torn one refuses the identity as *)
(* a complete one does: the write of a decision is therefore one step.     *)
(***************************************************************************)
EXTENDS SuccessiveHalving, SequencesExt

CONSTANTS
  Workers,      \* permits of the pool
  MaxRetries,   \* max_mechanical_retries: 0 or 1
  Doubtful,     \* candidates a gate may find infeasible; it finds the others feasible
  MaxFailures,  \* bound: mechanical failures and exhausted trials in a behaviour
  MaxRuns       \* bound: times the run is started

ASSUME RunAssumption ==
  /\ Workers \in Nat /\ Workers >= 1
  /\ MaxRetries \in {0, 1}
  /\ Doubtful \subseteq Candidates
  /\ MaxFailures \in Nat
  /\ MaxRuns \in Nat

VARIABLES
  evidence,   \* durable: receipts in the order of their created_at
  decisions,  \* durable: create-once files asha/<run_id>/{promotions,retries}/
  pc,         \* the runner: down, waiting, handling, done or failed
  runs,       \* times the run was started
  holding,    \* experiments that hold a permit
  queue,      \* experiments that wait for one, first come first served
  ended,      \* receipts (positions in evidence) of tasks that ended
  batch,      \* receipts of the current wait that are still to be handled
  observed,   \* per rung: receipts the operator has observed
  promoted    \* per rung: candidates the operator has promoted

vars == <<evidence, decisions, pc, runs, holding, queue, ended, batch,
          observed, promoted>>

\* "retryable": a mechanical failure whose kind is in RETRYABLE_FAILURES.
\* "exhausted": BUDGET_EXHAUSTED, which is not.
Outcomes == {"feasible", "infeasible", "retryable", "exhausted"}

\* The identity of an experiment: via is the promotion record that asked for
\* it (promotion_reason), 0 for the first rung.
Experiment == [cand : Candidates, rung : 1..Rungs, attempt : 0..MaxRetries, via : Nat]

Exp(c, r, a, v) == [cand |-> c, rung |-> r, attempt |-> a, via |-> v]

ExpOf(i) == Exp(evidence[i].cand, evidence[i].rung, evidence[i].attempt, evidence[i].via)

ReceiptsOf(e) ==
  {i \in DOMAIN evidence : evidence[i].cand = e.cand /\ ExpOf(i) = e}

\* What a rung has observed, as receipts.
Seen(r) == [k \in DOMAIN observed[r] |-> evidence[observed[r][k]]]

Failures ==
  Cardinality({i \in DOMAIN evidence : evidence[i].outcome \in {"retryable", "exhausted"}})

\* Free permits go to the queue's head.
Place(h, q) ==
  LET k == Min2(Len(q), Workers - Cardinality(h))
  IN /\ holding' = h \cup {q[i] : i \in 1..k}
     /\ queue' = SubSeq(q, k + 1, Len(q))

\* create_task(executor.execute(...)): an experiment that has its evidence
\* ends at once with the stored receipt, any other one joins the queue.
Schedule(e) ==
  \/ ReceiptsOf(e) = {} /\ Place(holding, Append(queue, e)) /\ UNCHANGED ended
  \/ ReceiptsOf(e) # {} /\ ended' = ended \cup ReceiptsOf(e) /\ UNCHANGED <<holding, queue>>

\* The first experiment of a candidate, and those of the candidates up to c
\* that have no evidence yet.
Trial(c) == Exp(c, 1, 0, 0)

NewTrials[c \in 0..Initial] ==
  IF c = 0 THEN <<>>
  ELSE IF ReceiptsOf(Trial(c)) = {} THEN Append(NewTrials[c - 1], Trial(c))
  ELSE NewTrials[c - 1]

Decision(kind, i, obs, before) ==
  [kind |-> kind, receipt |-> i, observed |-> obs, before |-> before, run |-> runs]

\* write_record raises on a record of that identity: its content would
\* differ in created_at.
AlreadyDecided(d) ==
  \E k \in DOMAIN decisions :
    /\ decisions[k].kind = d.kind /\ decisions[k].receipt = d.receipt
    /\ decisions[k].observed = d.observed /\ decisions[k].before = d.before

------------------------------------------------------------------------------
(* Start, crash and the end of a run *)

Nothing ==
  /\ holding' = {}
  /\ queue' = <<>>
  /\ ended' = {}
  /\ batch' = {}
  /\ observed' = [r \in 1..Rungs |-> <<>>]
  /\ promoted' = [r \in 1..Rungs |-> <<>>]

Init ==
  /\ evidence = <<>>
  /\ decisions = <<>>
  /\ pc = "down"
  /\ runs = 0
  /\ holding = {}
  /\ queue = <<>>
  /\ ended = {}
  /\ batch = {}
  /\ observed = [r \in 1..Rungs |-> <<>>]
  /\ promoted = [r \in 1..Rungs |-> <<>>]

\* run: every candidate is scheduled on the first rung.
Start ==
  /\ pc \in {"down", "failed"}
  /\ runs < MaxRuns
  /\ runs' = runs + 1
  /\ pc' = "waiting"
  /\ Place({}, NewTrials[Initial])
  /\ ended' = UNION {ReceiptsOf(Trial(c)) : c \in Candidates}
  /\ UNCHANGED <<evidence, decisions, batch, observed, promoted>>

Stop(how) ==
  /\ pc' = how
  /\ Nothing
  /\ UNCHANGED <<evidence, decisions, runs>>

\* The process dies, or a task raises and asyncio.run cancels the others.
Crash ==
  /\ pc \in {"waiting", "handling"}
  /\ Stop("down")

\* The loop ends when no task is pending.
Finish ==
  /\ pc = "waiting"
  /\ holding = {} /\ queue = <<>> /\ ended = {}
  /\ pc' = "done"
  /\ UNCHANGED <<evidence, decisions, runs, holding, queue, ended, batch,
                 observed, promoted>>

------------------------------------------------------------------------------
(* The pool *)

Record(e, outcome) ==
  /\ evidence' = Append(evidence,
       [cand |-> e.cand, rung |-> e.rung, attempt |-> e.attempt, via |-> e.via,
        outcome |-> outcome])
  /\ ended' = ended \cup {Len(evidence) + 1}
  /\ UNCHANGED <<decisions, pc, runs, batch, observed, promoted>>

\* An evaluation returns: its evidence is recorded and the permit handed on.
Evaluate(e, outcome) ==
  /\ pc = "waiting"
  /\ e \in holding /\ ReceiptsOf(e) = {}
  /\ outcome = "infeasible" => e.cand \in Doubtful
  /\ Record(e, outcome)
  /\ Place(holding \ {e}, queue)

\* Mutant: the permit of a worker that does not return is never released.
FailKeepsPermit(e, outcome) ==
  /\ pc = "waiting"
  /\ e \in holding /\ ReceiptsOf(e) = {}
  /\ Failures < MaxFailures
  /\ Record(e, outcome)
  /\ UNCHANGED <<holding, queue>>

\* An evaluation that does not give a result of its candidate.  It fails
\* mechanically (an exception, MemoryError) within what it asked for, which
\* is "retryable"; or its usage is over the request and its receipt becomes
\* BUDGET_EXHAUSTED whatever it returned.  That is always so when wait_for
\* cancels it: the wall time then measured is over the timeout.  The permit is
\* handed on, after a timeout although the worker thread is still busy.  A
\* trial whose reservation the budget refuses gets the same receipt.
Fail(e, outcome) ==
  /\ pc = "waiting"
  /\ e \in holding /\ ReceiptsOf(e) = {}
  /\ Failures < MaxFailures
  /\ Record(e, outcome)
  /\ Place(holding \ {e}, queue)

\* The same clock runs while an experiment waits for its permit, and what it
\* has waited is its wall time.
TimeoutQueued(k) ==
  /\ pc = "waiting"
  /\ k \in DOMAIN queue
  /\ Failures < MaxFailures
  /\ Record(queue[k], "exhausted")
  /\ Place(holding, RemoveAt(queue, k))

------------------------------------------------------------------------------
(* The runner *)

\* Mutant: the tasks of one wait are handled in the order of the candidates.
FirstByCandidate(receipts) ==
  CHOOSE i \in receipts : \A j \in receipts : evidence[i].cand <= evidence[j].cand

\* completed.sort(key=(created_at, candidate_id)): the one that comes first.
First(receipts) == CHOOSE i \in receipts : \A j \in receipts : i <= j

Collect ==
  /\ pc = "waiting"
  /\ ended # {}
  /\ pc' = "handling"
  /\ ended' = {}
  /\ batch' = ended
  /\ UNCHANGED <<evidence, decisions, runs, holding, queue, observed, promoted>>

Handled(i) ==
  /\ batch' = batch \ {i}
  /\ pc' = IF batch' = {} THEN "waiting" ELSE "handling"
  /\ UNCHANGED <<evidence, runs>>

\* Mutant: only the first rung retries.
RetriedOnlyOnFirstRung(i) ==
  evidence[i].outcome = "retryable" /\ evidence[i].attempt < MaxRetries
    /\ evidence[i].rung = 1

Retried(i) == evidence[i].outcome = "retryable" /\ evidence[i].attempt < MaxRetries

\* A mechanical failure is tried again instead of being observed; a trial
\* that exhausted its budget is not.
Retry(i) ==
  LET d == Decision("retry", i, <<>>, <<>>)
  IN /\ ~AlreadyDecided(d)
     /\ decisions' = Append(decisions, d)
     /\ Schedule([ExpOf(i) EXCEPT !.attempt = @ + 1])
     /\ Handled(i)
     /\ UNCHANGED <<observed, promoted>>

\* The operator observes the receipt of rung r.  An observation adds at most
\* one feasible receipt, so it opens at most one slot.
ObservedAfter(i) ==
  LET r == evidence[i].rung
  IN IF i \in Range(observed[r]) THEN observed[r] ELSE Append(observed[r], i)

SeenAfter(i) == [k \in DOMAIN ObservedAfter(i) |-> evidence[ObservedAfter(i)[k]]]

Promotes(i) ==
  LET r == evidence[i].rung
  IN r < Rungs /\ SlotOpen(r, SeenAfter(i), promoted[r])

\* Mutant: the record lists what the rung had observed before this receipt.
PromotionByStale(i) ==
  LET r == evidence[i].rung
      obs == ObservedAfter(i)
  IN Decision("promotion", obs[NextPromotion(SeenAfter(i), promoted[r])],
              observed[r], promoted[r])

\* The record of the promotion that observing i makes.
PromotionBy(i) ==
  LET r == evidence[i].rung
      obs == ObservedAfter(i)
  IN Decision("promotion", obs[NextPromotion(SeenAfter(i), promoted[r])], obs, promoted[r])

ObserveOnly(i) ==
  /\ ~Promotes(i)
  /\ observed' = [observed EXCEPT ![evidence[i].rung] = ObservedAfter(i)]
  /\ Handled(i)
  /\ UNCHANGED <<decisions, holding, queue, ended, promoted>>

\* The promotion is persisted and its trial scheduled on the next rung.
ObserveAndPromote(i) ==
  LET r == evidence[i].rung
      d == PromotionBy(i)
      c == evidence[d.receipt].cand
  IN /\ Promotes(i)
     /\ ~AlreadyDecided(d)
     /\ observed' = [observed EXCEPT ![r] = ObservedAfter(i)]
     /\ promoted' = [promoted EXCEPT ![r] = Append(@, c)]
     /\ decisions' = Append(decisions, d)
     /\ Schedule(Exp(c, r + 1, 0, Len(decisions) + 1))
     /\ Handled(i)

\* A decision an earlier start of the run has persisted: the write raises
\* and the run is over.
Redecided(i) ==
  /\ \/ Retried(i) /\ AlreadyDecided(Decision("retry", i, <<>>, <<>>))
     \/ ~Retried(i) /\ Promotes(i) /\ AlreadyDecided(PromotionBy(i))
  /\ Stop("failed")

Handle ==
  /\ pc = "handling"
  /\ \E i \in {First(batch)} :
       \/ Retried(i) /\ Retry(i)
       \/ ~Retried(i) /\ ObserveOnly(i)
       \/ ~Retried(i) /\ ObserveAndPromote(i)
       \/ Redecided(i)

------------------------------------------------------------------------------

Settle ==
  \/ \E e \in holding, o \in {"feasible", "infeasible"} : Evaluate(e, o)
  \/ \E e \in holding, o \in {"retryable", "exhausted"} : Fail(e, o)
  \/ \E k \in DOMAIN queue : TimeoutQueued(k)

Next == Start \/ Crash \/ Settle \/ Collect \/ Handle \/ Finish

\* The event loop keeps running what is ready, and an evaluation ends or runs
\* into its timeout; nothing makes a crash or another start happen.
Fairness == WF_vars(Settle) /\ WF_vars(Collect \/ Handle) /\ WF_vars(Finish)

Spec == Init /\ [][Next]_vars /\ Fairness

\* Whatever the order in which evaluations end, time out, are retried and
\* are collected, a rung has always promoted exactly as many trials as its
\* feasible observations and its capacity allow.
PromotionsKeepPace ==
  \A r \in 1..(Rungs - 1) :
    Len(promoted[r]) =
      Min2(Cardinality({k \in DOMAIN observed[r] : evidence[observed[r][k]].outcome = "feasible"})
             \div Eta,
           Initial \div Power[r])

\* Decisions on disk were all made by one start of the run: a start after a
\* crash either finds nothing decided or stops at the first decision it
\* would repeat.  It can never add promotions to those of the crashed one.
OneRunDecides ==
  \A i, j \in DOMAIN decisions : decisions[i].run = decisions[j].run

\* Every promotion on disk replays from the receipts it names, also after
\* the operator that made it is gone.
PromotionsReplay ==
  \A k \in DOMAIN decisions :
    LET d   == decisions[k]
        obs == [n \in DOMAIN d.observed |-> evidence[d.observed[n]]]
    IN d.kind = "promotion" =>
         /\ d.receipt \in Range(d.observed)
         /\ Replays(evidence[d.receipt].rung, evidence[d.receipt].cand, obs, d.before)

\* A run that completes has observed every candidate once on the first rung
\* and every promoted one once on the rung it was promoted to, whether the
\* trial ended or ran out of its budget in a worker or in the queue, and it
\* has written off no trial for a mechanical failure with a retry left.
EveryTrialIsSettled ==
  pc = "done" =>
    \A r \in 1..Rungs :
      /\ Range([k \in DOMAIN observed[r] |-> evidence[observed[r][k]].cand]) =
           (IF r = 1 THEN Candidates ELSE Range(promoted[r - 1]))
      /\ Len(observed[r]) = (IF r = 1 THEN Initial ELSE Len(promoted[r - 1]))
      /\ \A k \in DOMAIN observed[r] :
           evidence[observed[r][k]].outcome = "retryable"
             => evidence[observed[r][k]].attempt = MaxRetries

\* The best candidate of a rung is promoted whenever the rung's feasible
\* trials fill whole groups of eta, in whatever order they were observed.
LeaderIsPromoted ==
  pc = "done" =>
    \A r \in 1..(Rungs - 1) :
      LET obs == Seen(r)
          n   == Cardinality(Feasible(obs))
      IN n > 0 /\ n % Eta = 0 =>
           \E k \in DOMAIN promoted[r] :
             \A i \in Feasible(obs) :
               \/ obs[i].cand = promoted[r][k]
               \/ \E j \in Feasible(obs) :
                    obs[j].cand = promoted[r][k] /\ RanksBefore(obs[j], obs[i])

\* A started run ends: no trial waits for ever for a permit that a timed-out
\* evaluation took with it.
RunEnds == (pc \in {"waiting", "handling"}) ~> (pc \in {"done", "failed", "down"})
==============================================================================
