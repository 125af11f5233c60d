-------------------------- MODULE SearchLoopProofs --------------------------
(***************************************************************************)
(* Proofs about SearchLoop, for any budget, policy, space of strategies    *)
(* and number of steps: what a deployment lost to a crash does to the      *)
(* escapes after it, that the stored history can always be read back, that *)
(* a step is charged for what was generated for it, and that a search      *)
(* stops at the step that exceeds its budget; and what can make the best   *)
(* utility known become worse.                                             *)
(***************************************************************************)
EXTENDS SearchLoop, SumTheorems

-----------------------------------------------------------------------------
(* Tables that only grow *)

IsSeq(s) == \E S : s \in Seq(S)

LEMMA Appended ==
  ASSUME NEW s, IsSeq(s), NEW e
  PROVE  /\ IsSeq(Append(s, e)) /\ Len(s) \in Nat
         /\ DOMAIN s = 1..Len(s) /\ DOMAIN Append(s, e) = 1..(Len(s) + 1)
         /\ Len(Append(s, e)) = Len(s) + 1
         /\ Append(s, e)[Len(s) + 1] = e
         /\ \A i \in 1..Len(s) : Append(s, e)[i] = s[i]
<1>1. PICK S : s \in Seq(S)
  BY DEF IsSeq
<1>2. s \in Seq(S \cup {e}) /\ e \in S \cup {e}
  BY <1>1
<1>3. Append(s, e) \in Seq(S \cup {e})
  BY <1>2
<1>4. QED
  BY <1>2, <1>3 DEF IsSeq

LEMMA Length == ASSUME NEW s, IsSeq(s) PROVE Len(s) \in Nat /\ DOMAIN s = 1..Len(s)
BY DEF IsSeq

-----------------------------------------------------------------------------
(* Deployments *)

AtWork == {"generating", "screening", "evaluating", "recording"}

TablesOK == IsSeq(actions) /\ IsSeq(deployments) /\ IsSeq(settlements)

\* The promise without Cardinality.
OnePending ==
  /\ \A i, j \in Pending : i = j
  /\ \A i \in Pending, k \in DOMAIN actions :
       actions[k].act = "structural" => k - 1 <= deployments[i].step

DeployedBefore ==
  \A i \in DOMAIN deployments : deployments[i].step \in Nat /\ deployments[i].step <= Step

\* The step of the loop is the next one until it is recorded; a structural
\* action is planned only when nothing is pending, and while it is at work
\* what is pending is its own deployment.
AtStep ==
  /\ pc \in {"deciding", "binding", "deploying"} \cup AtWork => before.step = Step
  /\ pc \in {"binding", "deploying"} /\ plan.act = "structural" => Pending = {}
  /\ pc \in {"deploying", "settling"} => plan.act = "structural"
  /\ pc \in AtWork \cup {"settling"} /\ plan.act = "structural" =>
       \A i \in Pending : deployments[i].step = before.step

EscapeInv == TablesOK /\ OnePending /\ DeployedBefore /\ AtStep

LEMMA EscapeInit == Init => EscapeInv
<1> SUFFICES ASSUME Init PROVE EscapeInv
  OBVIOUS
<1>1. actions = <<>> /\ deployments = <<>> /\ settlements = <<>> /\ pc = "down"
  BY DEF Init
<1>2. TablesOK
  BY <1>1 DEF TablesOK, IsSeq
<1>3. QED
  BY <1>1, <1>2 DEF EscapeInv, OnePending, DeployedBefore, AtStep, AtWork, Pending

\* A step that leaves the tables alone has only its place to account for.
LEMMA TablesStay ==
  ASSUME EscapeInv, UNCHANGED <<actions, deployments, settlements>>, AtStep'
  PROVE  EscapeInv'
<1>1. Pending' = Pending /\ Step' = Step
  BY DEF Pending, Step
<1>2. QED
  BY <1>1 DEF EscapeInv, TablesOK, OnePending, DeployedBefore

LEMMA Left ==
  ASSUME EscapeInv, NEW where \in Idle, Leave(where)
  PROVE  EscapeInv'
<1>1. AtStep' /\ UNCHANGED <<actions, deployments, settlements>>
  BY DEF Leave, durable, AtStep, AtWork, Idle
<1>2. QED
  BY <1>1, TablesStay

LEMMA Started ==
  ASSUME EscapeInv, Start \/ Build \/ StopLoop \/ Trace
  PROVE  EscapeInv'
<1>1. UNCHANGED <<actions, deployments, settlements>>
  BY DEF Start, Build, StopLoop, Trace, durable
<1>2. CASE Start \/ StopLoop \/ Trace
  <2>1. AtStep'
    BY <1>2 DEF Start, StopLoop, Trace, AtStep, AtWork
  <2>2. QED
    BY <1>1, <2>1, TablesStay
<1>3. CASE Build
  <2>1. pc' = "deciding" /\ before'.step = Step /\ Step' = Step
    BY <1>1, <1>3 DEF Build, Projection, Step
  <2>2. AtStep'
    BY <2>1 DEF AtStep, AtWork
  <2>3. QED
    BY <1>1, <2>2, TablesStay
<1>4. QED
  BY <1>2, <1>3

LEMMA Planned == ASSUME EscapeInv, PlanAction PROVE EscapeInv'
<1>1. PICK p \in Drawn :
        LET d == Decide(before, p)
        IN ~PlanRaises(d) /\ plan'.act = d.act
  BY DEF PlanAction
<1>2. plan'.act = "structural" => Pending = {}
  BY <1>1 DEF PlanRaises
<1>3. UNCHANGED <<actions, deployments, settlements, before>> /\ pc = "deciding" /\ pc' = "binding"
  BY DEF PlanAction, durable
<1>4. Pending' = Pending /\ Step' = Step
  BY <1>3 DEF Pending, Step
<1>5. AtStep'
  BY <1>2, <1>3, <1>4 DEF EscapeInv, AtStep, AtWork
<1>6. QED
  BY <1>3, <1>5, TablesStay

LEMMA Worked ==
  ASSUME EscapeInv,
         Bind \/ Unmaterializable \/ (\E g : Propose(g)) \/ Screen \/ Unscreenable
           \/ (\E v : Evaluate(v))
  PROVE  EscapeInv'
<1>1. UNCHANGED <<actions, deployments, settlements, before, plan>>
  BY DEF Bind, Unmaterializable, Propose, Screen, Unscreenable, Evaluate, durable
<1>2. Pending' = Pending /\ Step' = Step
  BY <1>1 DEF Pending, Step
<1>3. CASE Bind
  <2>1. pc = "binding" /\ pc' = AfterBinding
    BY <1>3 DEF Bind
  <2>2. AtStep'
    BY <1>1, <1>2, <2>1 DEF EscapeInv, AtStep, AtWork, AfterBinding
  <2>3. QED
    BY <1>1, <2>2, TablesStay
<1>4. ASSUME pc \in AtWork, pc' \in AtWork PROVE EscapeInv'
  <2>1. AtStep'
    BY <1>1, <1>2, <1>4 DEF EscapeInv, AtStep, AtWork
  <2>2. QED
    BY <1>1, <2>1, TablesStay
<1>5. Unmaterializable \/ Screen \/ Unscreenable => pc \in AtWork /\ pc' \in AtWork
  BY DEF Unmaterializable, Screen, Unscreenable, GiveUp, AtWork
<1>6. \A g : Propose(g) => pc \in AtWork /\ pc' \in AtWork
  BY DEF Propose, GiveUp, AtWork
<1>7. \A v : Evaluate(v) => pc \in AtWork /\ pc' \in AtWork
  BY DEF Evaluate, AtWork
<1>8. QED
  BY <1>3, <1>4, <1>5, <1>6, <1>7

LEMMA Deployed == ASSUME EscapeInv, Deploy PROVE EscapeInv'
<1> DEFINE row == [step |-> before.step, strategy |-> plan.strategy, fallback |-> plan.fallback]
           n == Len(deployments) + 1
<1>1. /\ pc = "deploying" /\ pc' = "generating" /\ deployments' = Append(deployments, row)
      /\ UNCHANGED <<actions, settlements, before, plan>>
  BY DEF Deploy
<1>2. before.step = Step /\ Step \in Nat /\ Pending = {}
  BY <1>1, Length DEF EscapeInv, TablesOK, AtStep, AtWork, Step
<1>3. /\ IsSeq(deployments') /\ DOMAIN deployments = 1..(n - 1) /\ DOMAIN deployments' = 1..n
      /\ deployments'[n] = row /\ \A i \in 1..(n - 1) : deployments'[i] = deployments[i]
      /\ n - 1 \in Nat
  BY <1>1, Appended DEF EscapeInv, TablesOK
<1>4. Step' = Step
  BY <1>1 DEF Step
<1>5. Pending' \subseteq {n}
  <2> SUFFICES ASSUME NEW i \in Pending', i # n PROVE FALSE
    OBVIOUS
  <2>1. i \in 1..(n - 1) /\ deployments'[i] = deployments[i]
    BY <1>3 DEF Pending
  <2>2. i \in Pending
    BY <1>1, <1>3, <2>1 DEF Pending
  <2>3. QED
    BY <1>2, <2>2
<1>6. TablesOK'
  BY <1>1, <1>3 DEF EscapeInv, TablesOK
<1>7. DeployedBefore'
  BY <1>2, <1>3, <1>4 DEF EscapeInv, DeployedBefore
<1>8. \A k \in DOMAIN actions : k - 1 <= Step
  BY Length DEF EscapeInv, TablesOK, Step
<1>9. OnePending'
  BY <1>1, <1>2, <1>3, <1>5, <1>8 DEF OnePending
<1>10. AtStep'
  BY <1>1, <1>2, <1>3, <1>4, <1>5 DEF AtStep, AtWork
<1>11. QED
  BY <1>6, <1>7, <1>9, <1>10 DEF EscapeInv

LEMMA ActionRecorded == ASSUME EscapeInv, Record PROVE EscapeInv'
<1> DEFINE row == [act |-> plan.act, source |-> plan.cand, result |-> result.cand,
                   receipt |-> result.receipt, used |-> Usage, failed |-> result.failed]
<1>1. /\ pc = "recording" /\ actions' = Append(actions, row)
      /\ UNCHANGED <<deployments, settlements, before, plan>>
      /\ pc' = IF plan.act = "structural" THEN "settling" ELSE "tracing"
  BY DEF Record
<1>2. /\ IsSeq(actions') /\ Len(actions) \in Nat /\ Step' = Step + 1
      /\ DOMAIN actions = 1..Step /\ DOMAIN actions' = 1..(Step + 1)
      /\ actions'[Step + 1].act = plan.act
      /\ \A k \in 1..Step : actions'[k] = actions[k]
  BY <1>1, Appended DEF EscapeInv, TablesOK, Step
<1>3. Pending' = Pending /\ Step \in Nat
  BY <1>1, <1>2 DEF Pending, Step
<1>4. plan.act = "structural" => \A i \in Pending : deployments[i].step = Step
  BY <1>1 DEF EscapeInv, AtStep, AtWork
<1>5. TablesOK'
  BY <1>1, <1>2 DEF EscapeInv, TablesOK
<1>6. DeployedBefore'
  BY <1>1, <1>2, <1>3 DEF EscapeInv, DeployedBefore
<1>7. OnePending'
  <2> SUFFICES ASSUME NEW i \in Pending, NEW k \in 1..(Step + 1), actions'[k].act = "structural"
      PROVE k - 1 <= deployments[i].step
    BY <1>1, <1>2, <1>3 DEF EscapeInv, OnePending
  <2>1. CASE k = Step + 1
    BY <1>2, <1>3, <1>4, <2>1
  <2>2. CASE k \in 1..Step
    BY <1>2, <2>2 DEF EscapeInv, OnePending
  <2>3. QED
    BY <1>3, <2>1, <2>2
<1>8. AtStep'
  BY <1>1, <1>3, <1>4 DEF EscapeInv, AtStep, AtWork
<1>9. QED
  BY <1>5, <1>6, <1>7, <1>8 DEF EscapeInv

LEMMA StrategySettled == ASSUME EscapeInv, SettleStrategy PROVE EscapeInv'
<1>0. PICK s \in NextStrategy :
        settlements' = Append(settlements,
          [step |-> before.step, active |-> s.active, fallback |-> s.fallback])
  BY DEF SettleStrategy
<1> DEFINE row == [step |-> before.step, active |-> s.active, fallback |-> s.fallback]
           n == Len(settlements) + 1
<1>1. /\ pc = "settling" /\ pc' = "tracing" /\ settlements' = Append(settlements, row)
      /\ UNCHANGED <<actions, deployments, before, plan>>
  BY <1>0 DEF SettleStrategy
<1>2. /\ IsSeq(settlements') /\ n - 1 \in Nat
      /\ DOMAIN settlements = 1..(n - 1) /\ DOMAIN settlements' = 1..n
      /\ settlements'[n].step = before.step
      /\ \A i \in 1..(n - 1) : settlements'[i] = settlements[i]
  BY <1>1, Appended DEF EscapeInv, TablesOK
<1>3. Pending' \subseteq Pending
  BY <1>1, <1>2 DEF Pending
<1>4. TablesOK' /\ DeployedBefore'
  BY <1>1, <1>2 DEF EscapeInv, TablesOK, DeployedBefore, Step
<1>5. OnePending'
  BY <1>1, <1>3 DEF EscapeInv, OnePending
<1>6. AtStep'
  BY <1>1 DEF AtStep, AtWork
<1>7. QED
  BY <1>4, <1>5, <1>6 DEF EscapeInv

LEMMA EscapeStep == EscapeInv /\ [Next]_vars => EscapeInv'
<1> SUFFICES ASSUME EscapeInv, [Next]_vars PROVE EscapeInv'
  OBVIOUS
<1>1. CASE Start \/ Build \/ StopLoop \/ Trace
  BY <1>1, Started
<1>2. CASE Crash \/ BuildFails \/ PlanFails \/ BindFails \/ ProposeFails \/ EvaluateFails \/ TraceFails
  <2>1. PICK where \in Idle : Leave(where)
    BY <1>2 DEF Crash, BuildFails, PlanFails, BindFails, ProposeFails, EvaluateFails, TraceFails, Idle
  <2>2. QED
    BY <2>1, Left
<1>3. CASE PlanAction \/ Deploy \/ Record \/ SettleStrategy
  BY <1>3, Planned, Deployed, ActionRecorded, StrategySettled
<1>4. CASE Bind \/ Unmaterializable \/ (\E g : Propose(g)) \/ Screen \/ Unscreenable
             \/ (\E v : Evaluate(v))
  BY <1>4, Worked
<1>5. CASE UNCHANGED vars
  <2>1. UNCHANGED <<actions, deployments, settlements, pc, before, plan>>
    BY <1>5 DEF vars
  <2>2. AtStep'
    BY <2>1 DEF EscapeInv, AtStep, Pending, Step
  <2>3. QED
    BY <2>1, <2>2, TablesStay
<1>6. QED
  BY <1>1, <1>2, <1>3, <1>4, <1>5 DEF Next, Work

THEOREM EscapeInvariant == Spec => []EscapeInv
BY EscapeInit, EscapeStep, PTL DEF Spec

\* A deployment whose settlement was lost stays the only one, and no structural
\* action is recorded for a later step.
THEOREM LostSettlementHolds == Spec => []LostSettlementStopsEscapes
<1>1. EscapeInv => LostSettlementStopsEscapes
  <2> SUFFICES ASSUME EscapeInv
      PROVE /\ Cardinality(Pending) <= 1
            /\ \A i \in Pending, k \in DOMAIN actions :
                 actions[k].act = "structural" => k - 1 <= deployments[i].step
    BY DEF LostSettlementStopsEscapes, Pending
  <2>1. OnePending
    BY DEF EscapeInv
  <2>2. Pending = {} => Cardinality(Pending) <= 1
    BY FS_EmptySet
  <2>3. ASSUME NEW a \in Pending PROVE Cardinality(Pending) <= 1
    <3>1. Pending = {a}
      BY <2>1, <2>3 DEF OnePending
    <3>2. Cardinality({a}) = 1
      BY FS_Singleton
    <3>3. QED
      BY <3>1, <3>2
  <2>4. Cardinality(Pending) <= 1
    BY <2>2, <2>3
  <2>5. QED
    BY <2>1, <2>4 DEF OnePending
<1>2. QED
  BY <1>1, EscapeInvariant, PTL

-----------------------------------------------------------------------------
(* The history *)

\* The generative actions among the first n.
Earlier(n) == {j \in 1..n : Generated(j)}

ScopeAt(n) == {Root} \cup {actions[j].result : j \in Earlier(n)}

LastAt(n) == IF Earlier(n) = {} THEN Root ELSE actions[Max(Earlier(n))].result

LEMMA MaxIsIn ==
  ASSUME NEW n \in Nat, NEW K \in SUBSET (1..n), K # {}
  PROVE  Max(K) \in K
<1> DEFINE T == {n - k : k \in K}
<1>1. T \subseteq Nat /\ T # {}
  <2>1. \A k \in K : n - k \in Nat
    OBVIOUS
  <2>2. PICK k \in K : n - k \in T
    OBVIOUS
  <2>3. QED
    BY <2>1, <2>2
<1> DEFINE less == OpToRel(<, Nat)
<1>2. \A x, y \in Nat : <<x, y>> \in less <=> x < y
  BY DEF OpToRel
<1> HIDE DEF T, less
<1>3. PICK t \in T : \A m \in T : <<m, t>> \notin less
  <2>1. IsWellFoundedOn(less, Nat)
    BY NatLessThanWellFounded DEF less
  <2>2. QED
    BY <1>1, <2>1, WFMin
<1>4. PICK x \in K : t = n - x
  BY DEF T
<1>5. \A y \in K : x >= y
  <2> SUFFICES ASSUME NEW y \in K PROVE x >= y
    OBVIOUS
  <2>1. n - y \in T /\ n - y \in Nat /\ t \in Nat
    BY <1>1 DEF T
  <2>2. ~(n - y < t)
    BY <1>2, <1>3, <2>1
  <2>3. QED
    BY <1>4, <2>2
<1>6. QED
  BY <1>5 DEF Max

\* The steps that are settled, and what each has to be to be read again.
Settled(k) ==
  /\ actions[k].source \in ScopeAt(k - 1)
  /\ actions[k].act \notin Generative => actions[k].result = LastAt(k - 1)
  /\ actions[k].receipt # 0 => /\ actions[k].receipt \in DOMAIN evidence
                               /\ evidence[actions[k].receipt].cand = actions[k].result
  /\ actions[k].result \in Nat \cup {None}

\* The plan of the loop is about the state it was made in, and what it has
\* found is a result of that plan.
OnPlan ==
  /\ attempt \in Nat
  /\ pc = "deciding" =>
       /\ before.current = Current /\ DOMAIN before.cands = Scoped
       /\ \A c \in Scoped : before.cands[c].active => c = Current
  /\ pc \in {"binding", "deploying"} \cup AtWork =>
       /\ plan.cand \in Scoped
       /\ plan.act \notin Generative => plan.cand = Current
  /\ pc \in {"deploying", "generating", "screening"} => plan.act \in Generative
  /\ pc = "screening" => \E g \in gens : g.cand = Child(attempt)
  /\ pc \notin {"evaluating", "recording", "settling", "tracing"} => result = NoResult
  /\ pc \in {"evaluating", "recording"} =>
       /\ result.cand \in Nat \cup {None}
       /\ plan.act \notin Generative => result.cand = plan.cand
  /\ pc = "evaluating" => result = [cand |-> result.cand, receipt |-> 0, failed |-> FALSE]
  /\ pc = "recording" /\ result.receipt # 0 =>
       result.receipt \in DOMAIN evidence /\ evidence[result.receipt].cand = result.cand

HistoryInv ==
  /\ IsSeq(actions) /\ IsSeq(evidence)
  /\ \A k \in DOMAIN actions : Settled(k)
  /\ OnPlan

LEMMA CurrentInScope ==
  ASSUME HistoryInv
  PROVE  /\ Current \in Scoped /\ Scoped \subseteq Nat
         /\ Step \in Nat /\ DOMAIN actions = 1..Step
         /\ Scoped = ScopeAt(Step) /\ Current = LastAt(Step)
<1>1. Step \in Nat /\ DOMAIN actions = 1..Step
  BY Length DEF HistoryInv, Step
<1>2. Scoped = ScopeAt(Step) /\ Current = LastAt(Step)
  BY DEF Scoped, ScopeAt, Earlier, Current, LastAt
<1>3. Scoped \subseteq Nat
  BY <1>1 DEF HistoryInv, Settled, Scoped, Generated, Root
<1>4. Current \in Scoped
  <2>1. CASE Earlier(Step) = {}
    BY <1>2, <2>1 DEF LastAt, Scoped
  <2>2. CASE Earlier(Step) # {}
    <3>1. Max(Earlier(Step)) \in Earlier(Step)
      BY <1>1, <2>2, MaxIsIn DEF Earlier
    <3>2. QED
      BY <1>2, <2>2, <3>1 DEF LastAt, ScopeAt
  <2>3. QED
    BY <2>1, <2>2
<1>5. QED
  BY <1>1, <1>2, <1>3, <1>4

LEMMA HistoryInit == Init => HistoryInv
<1> SUFFICES ASSUME Init PROVE HistoryInv
  OBVIOUS
<1>1. actions = <<>> /\ evidence = FirstEvidence /\ pc = "down" /\ attempt = 0
      /\ result = NoResult
  BY DEF Init
<1>2. IsSeq(actions) /\ IsSeq(evidence)
  BY <1>1, LoopAssumption DEF IsSeq
<1>3. QED
  BY <1>1, <1>2 DEF HistoryInv, OnPlan, AtWork

\* A step that stores neither an action nor evidence.
LEMMA HistoryStays ==
  ASSUME HistoryInv, UNCHANGED <<actions, evidence>>, OnPlan'
  PROVE  HistoryInv'
<1>1. \A n : Earlier(n)' = Earlier(n)
  BY DEF Earlier, Generated
<1>2. \A n : ScopeAt(n)' = ScopeAt(n) /\ LastAt(n)' = LastAt(n)
  BY <1>1 DEF ScopeAt, LastAt
<1>3. \A k : Settled(k)' <=> Settled(k)
  BY <1>2 DEF Settled
<1>4. QED
  BY <1>3 DEF HistoryInv

LEMMA ScopeStays ==
  ASSUME UNCHANGED actions
  PROVE  Scoped' = Scoped /\ Current' = Current
BY DEF Scoped, Current, Generated, Step

LEMMA LeftBehind ==
  ASSUME HistoryInv, NEW where \in Idle, Leave(where)
  PROVE  HistoryInv'
<1>1. OnPlan' /\ UNCHANGED <<actions, evidence>>
  BY DEF Leave, durable, OnPlan, AtWork, Idle
<1>2. QED
  BY <1>1, HistoryStays

LEMMA Begins ==
  ASSUME HistoryInv, Start \/ StopLoop \/ Trace
  PROVE  HistoryInv'
<1>1. UNCHANGED <<actions, evidence>>
  BY DEF Start, StopLoop, Trace, durable
<1>2. /\ pc' \notin {"deciding", "binding", "deploying", "settling", "tracing"} \cup AtWork
      /\ attempt' \in Nat /\ result' = NoResult
  BY DEF Start, StopLoop, Trace, AtWork, HistoryInv, OnPlan, Idle
<1>3. OnPlan'
  BY <1>2 DEF OnPlan, AtWork
<1>4. QED
  BY <1>1, <1>3, HistoryStays

LEMMA StateBuilt == ASSUME HistoryInv, Build PROVE HistoryInv'
<1>1. /\ UNCHANGED <<actions, evidence, attempt, result>>
      /\ pc = "building" /\ pc' = "deciding" /\ before' = Projection
  BY DEF Build, durable
<1>2. /\ before'.current = Current /\ before'.cands = [c \in Scoped |-> Known(c)]
  BY <1>1 DEF Projection
<1>3. \A c \in Scoped : Known(c).active <=> c = Current
  BY DEF Known
<1>4. OnPlan'
  BY <1>1, <1>2, <1>3, ScopeStays DEF HistoryInv, OnPlan, AtWork
<1>5. QED
  BY <1>1, <1>4, HistoryStays

\* What decide makes of a state with one active candidate: an action that is
\* not generative is about that candidate, the others about the parent drawn.
LEMMA Decision ==
  ASSUME NEW s, NEW p, s.current \in Nat, Active(s) \subseteq {s.current},
         Decide(s, p).act # "stop"
  PROVE  LET d == Decide(s, p)
         IN /\ d.act \in Generative => d.cand = p
            /\ d.act \notin Generative => d.cand = s.current
<1>1. ASSUME NEW act, NEW c, NEW r
      PROVE  Admit(s, act, c, r) = Halt(act)
             \/ Admit(s, act, c, r) = [act |-> act, cand |-> c, rung |-> r, rejected |-> "none"]
  BY DEF Admit
<1>2. \A x : Halt(x).act = "stop"
  BY DEF Halt
<1>3. CASE Decide(s, p) = Halt("none")
  BY <1>2, <1>3
<1>4. ASSUME NEW act, NEW c, NEW r, Decide(s, p) = Admit(s, act, c, r)
      PROVE  Decide(s, p).act = act /\ Decide(s, p).cand = c
  BY <1>1, <1>2, <1>4
<1>5. CASE s.open /\ Active(s) # {} /\ Replicable(s) # {}
  <2>1. Replicable(s) = {s.current}
    BY <1>5 DEF Replicable
  <2>2. Nearest(s, Replicable(s)) = s.current
    BY <2>1 DEF Nearest
  <2>3. Decide(s, p) = Admit(s, "replicate", s.current, s.cands[s.current].rung)
    BY <1>5, <2>2 DEF Decide
  <2>4. QED
    BY <1>4, <2>3 DEF Generative
<1>6. CASE s.open /\ Active(s) # {} /\ Replicable(s) = {} /\ Promotable(s) # {}
  <2>1. Promotable(s) = {s.current}
    BY <1>6 DEF Promotable
  <2>2. Fittest(s, Promotable(s)) = s.current
    BY <2>1 DEF Fittest
  <2>3. Decide(s, p) = Admit(s, "promote", s.current, s.cands[s.current].rung + 1)
    BY <1>6, <2>2 DEF Decide
  <2>4. QED
    BY <1>4, <2>3 DEF Generative
<1>7. CASE Decide(s, p) = Escape(s, p)
  <2>1. Escape(s, p) = Halt("none")
        \/ Escape(s, p) = Admit(s, "structural", p, s.cands[p].rung)
    BY DEF Escape
  <2>2. QED
    BY <1>3, <1>4, <1>7, <2>1 DEF Generative
<1>8. CASE Decide(s, p) = Patch(s, p)
  <2>1. Patch(s, p) = Halt("none") \/ Patch(s, p) = Admit(s, "local", p, s.cands[s.current].rung)
    BY DEF Patch
  <2>2. QED
    BY <1>3, <1>4, <1>8, <2>1 DEF Generative
<1>9. \/ Decide(s, p) = Halt("none")
      \/ s.open /\ Active(s) # {} /\ Replicable(s) # {}
      \/ s.open /\ Active(s) # {} /\ Replicable(s) = {} /\ Promotable(s) # {}
      \/ Decide(s, p) = Escape(s, p)
      \/ Decide(s, p) = Patch(s, p)
  BY DEF Decide
<1>10. QED
  BY <1>3, <1>5, <1>6, <1>7, <1>8, <1>9

LEMMA ActionPlanned == ASSUME HistoryInv, PlanAction PROVE HistoryInv'
<1>1. /\ UNCHANGED <<actions, evidence, attempt, result>>
      /\ pc = "deciding" /\ pc' = "binding"
  BY DEF PlanAction, durable
<1>2. /\ before.current = Current /\ DOMAIN before.cands = Scoped
      /\ Active(before) \subseteq {before.current}
  BY <1>1 DEF HistoryInv, OnPlan, Active
<1>3. PICK p \in Drawn :
        LET d == Decide(before, p)
        IN /\ d.act # "stop" /\ ~PlanRaises(d)
           /\ plan' = [act |-> d.act, rung |-> d.rung, drawn |-> d.cand,
                       cand |-> IF d.act = "structural" THEN StrategyParent(d.cand) ELSE d.cand,
                       strategy |-> Strategy.active, fallback |-> Strategy.fallback]
  BY DEF PlanAction
<1>4. p \in Scoped
  BY <1>2, CurrentInScope DEF Drawn
<1> DEFINE d == Decide(before, p)
<1>5. /\ d.act \in Generative => d.cand = p
      /\ d.act \notin Generative => d.cand = before.current
  <2>1. before.current \in Nat
    BY <1>2, CurrentInScope
  <2>2. QED
    BY <1>2, <1>3, <2>1, Decision
<1>6. d.act = "structural" => StrategyParent(d.cand) = before.current
  BY <1>3 DEF PlanRaises
<1>7. /\ plan'.act = d.act
      /\ plan'.cand = IF d.act = "structural" THEN StrategyParent(d.cand) ELSE d.cand
  BY <1>3
<1>8. /\ plan'.cand \in Scoped
      /\ plan'.act \notin Generative => plan'.cand = Current
  BY <1>2, <1>4, <1>5, <1>6, <1>7, CurrentInScope DEF Generative
<1>9. OnPlan'
  BY <1>1, <1>8, ScopeStays DEF HistoryInv, OnPlan, AtWork
<1>10. QED
  BY <1>1, <1>9, HistoryStays

LEMMA StepBound == ASSUME HistoryInv, Bind \/ Deploy PROVE HistoryInv'
<1>1. UNCHANGED <<actions, evidence, plan, attempt>>
  BY DEF Bind, Deploy
<1>2. CASE Deploy
  <2>1. OnPlan'
    BY <1>1, <1>2, ScopeStays DEF Deploy, HistoryInv, OnPlan, AtWork
  <2>2. QED
    BY <1>1, <2>1, HistoryStays
<1>3. CASE Bind
  <2>1. /\ pc = "binding" /\ pc' = AfterBinding /\ result = NoResult
        /\ result' = IF AfterBinding = "evaluating" THEN [result EXCEPT !.cand = plan.cand]
                     ELSE result
    BY <1>3 DEF Bind, HistoryInv, OnPlan
  <2>2. plan.cand \in Scoped /\ plan.cand \in Nat
        /\ (plan.act \notin Generative => plan.cand = Current)
    BY <2>1, CurrentInScope DEF HistoryInv, OnPlan
  <2>3. \/ AfterBinding \in {"deploying", "generating"} /\ plan.act \in Generative
        \/ AfterBinding = "evaluating"
    BY DEF AfterBinding, Generative
  <2>4. AfterBinding = "evaluating" =>
          result' = [cand |-> plan.cand, receipt |-> 0, failed |-> FALSE]
    BY <2>1 DEF NoResult
  <2>5. OnPlan'
    BY <1>1, <2>1, <2>2, <2>3, <2>4, ScopeStays DEF HistoryInv, OnPlan, AtWork
  <2>6. QED
    BY <1>1, <2>5, HistoryStays
<1>4. QED
  BY <1>2, <1>3

LEMMA ProposalMade ==
  ASSUME HistoryInv, NEW g, g.cand = Child(attempt + 1), Propose(g)
  PROVE  HistoryInv'
<1>1. /\ UNCHANGED <<actions, evidence, plan>>
      /\ pc = "generating" /\ attempt' = attempt + 1 /\ result = NoResult
      /\ \/ pc' = "screening" /\ UNCHANGED result
         \/ pc' = "recording" /\ result' = [result EXCEPT !.failed = TRUE]
  BY DEF Propose, GiveUp, HistoryInv, OnPlan
<1>2. /\ result'.receipt = 0 /\ result'.cand \in Nat \cup {None}
      /\ g \in gens' /\ g.cand = Child(attempt)'
  BY <1>1 DEF NoResult, None, Propose, Child, Step
<1>3. OnPlan'
  BY <1>1, <1>2, ScopeStays DEF HistoryInv, OnPlan, AtWork
<1>4. QED
  BY <1>1, <1>3, HistoryStays

LEMMA ProposalScreened ==
  ASSUME HistoryInv, Unmaterializable \/ Screen \/ Unscreenable
  PROVE  HistoryInv'
<1>1. /\ UNCHANGED <<actions, evidence, plan, attempt>>
      /\ pc \in {"generating", "screening"} /\ result = NoResult
  BY DEF Unmaterializable, Screen, Unscreenable, durable, HistoryInv, OnPlan
<1>2. plan.act \in Generative
  BY <1>1 DEF HistoryInv, OnPlan
<1>3. CASE pc' = "recording" /\ result' = [result EXCEPT !.failed = TRUE]
  <2>1. result'.receipt = 0 /\ result'.cand \in Nat \cup {None}
    BY <1>1, <1>3 DEF NoResult, None
  <2>2. OnPlan'
    BY <1>1, <1>2, <1>3, <2>1, ScopeStays DEF HistoryInv, OnPlan, AtWork
  <2>3. QED
    BY <1>1, <2>2, HistoryStays
<1>4. CASE pc' = "generating" /\ UNCHANGED result
  <2>1. OnPlan'
    BY <1>1, <1>2, <1>4, ScopeStays DEF HistoryInv, OnPlan, AtWork
  <2>2. QED
    BY <1>1, <2>1, HistoryStays
<1>5. CASE pc = "screening" /\ pc' = "evaluating" /\ result' = [result EXCEPT !.cand = Row.cand]
  <2>1. /\ result' = [cand |-> Row.cand, receipt |-> 0, failed |-> FALSE]
        /\ Row.cand \in Nat
    <3>1. result' = [cand |-> Row.cand, receipt |-> 0, failed |-> FALSE]
      BY <1>1, <1>5 DEF NoResult
    <3>2. Row.cand = Child(attempt)
      BY <1>5 DEF Row, HistoryInv, OnPlan
    <3>3. Child(attempt) \in Nat
      <4>1. Step \in Nat /\ Attempts \in Nat /\ attempt \in Nat
        BY CurrentInScope, LoopAssumption DEF HistoryInv, OnPlan
      <4>2. Step * Attempts \in Nat
        BY <4>1
      <4>3. QED
        BY <4>1, <4>2 DEF Child, Root
    <3>4. QED
      BY <3>1, <3>2, <3>3
  <2>2. OnPlan'
    BY <1>1, <1>2, <1>5, <2>1, ScopeStays DEF HistoryInv, OnPlan, AtWork
  <2>3. QED
    BY <1>1, <2>2, HistoryStays
<1>6. QED
  BY <1>3, <1>4, <1>5 DEF Unmaterializable, Screen, Unscreenable, GiveUp

\* Evidence is added to what is there, so a settled step still has its own.
LEMMA EvidenceAdded == ASSUME HistoryInv, NEW v, Evaluate(v) PROVE HistoryInv'
<1> DEFINE row == [cand |-> result.cand, rung |-> plan.rung, seed |-> NextSeed, value |-> v]
           n == Len(evidence) + 1
<1>0. PICK f \in BOOLEAN : result' = [result EXCEPT !.receipt = n, !.failed = f]
  BY DEF Evaluate
<1>1. /\ UNCHANGED <<actions, plan, attempt>> /\ pc = "evaluating" /\ pc' = "recording"
      /\ evidence' = Append(evidence, row)
  BY DEF Evaluate
<1>2. /\ IsSeq(evidence') /\ DOMAIN evidence = 1..(n - 1) /\ DOMAIN evidence' = 1..n
      /\ evidence'[n] = row /\ \A i \in 1..(n - 1) : evidence'[i] = evidence[i]
      /\ n - 1 \in Nat
  BY <1>1, Appended DEF HistoryInv
<1>3. result'.receipt = n /\ result'.cand = result.cand
  <2>1. result = [cand |-> result.cand, receipt |-> 0, failed |-> FALSE]
    BY <1>1 DEF HistoryInv, OnPlan
  <2> HIDE DEF n
  <2>2. QED
    BY <1>0, <2>1
<1>4. evidence'[n].cand = result.cand
  BY <1>2
<1>5. OnPlan'
  BY <1>1, <1>2, <1>3, <1>4, ScopeStays DEF HistoryInv, OnPlan, AtWork
<1>6. \A k \in DOMAIN actions : Settled(k)'
  <2> SUFFICES ASSUME NEW k \in DOMAIN actions PROVE Settled(k)'
    OBVIOUS
  <2>1. Earlier(k - 1)' = Earlier(k - 1)
    BY <1>1 DEF Earlier, Generated
  <2>2. ScopeAt(k - 1)' = ScopeAt(k - 1) /\ LastAt(k - 1)' = LastAt(k - 1)
    BY <1>1, <2>1 DEF ScopeAt, LastAt
  <2>3. Settled(k)
    BY DEF HistoryInv
  <2>4. QED
    BY <1>1, <1>2, <2>2, <2>3 DEF Settled
<1>7. QED
  BY <1>1, <1>2, <1>5, <1>6 DEF HistoryInv

\* The step that is recorded was planned in the state the steps before it
\* make, and those are as they were.
LEMMA StepRecorded == ASSUME HistoryInv, Record PROVE HistoryInv'
<1> DEFINE row == [act |-> plan.act, source |-> plan.cand, result |-> result.cand,
                   receipt |-> result.receipt, used |-> Usage, failed |-> result.failed]
           n == Step + 1
<1>1. /\ UNCHANGED <<evidence, plan, attempt, result>> /\ pc = "recording"
      /\ pc' \in {"settling", "tracing"} /\ actions' = Append(actions, row)
  BY DEF Record
<1>2. /\ IsSeq(actions') /\ Step \in Nat /\ DOMAIN actions = 1..Step /\ DOMAIN actions' = 1..n
      /\ actions'[n] = row /\ \A k \in 1..Step : actions'[k] = actions[k]
  BY <1>1, Appended DEF HistoryInv, Step
<1>3. ASSUME NEW k \in 1..n
      PROVE  ScopeAt(k - 1)' = ScopeAt(k - 1) /\ LastAt(k - 1)' = LastAt(k - 1)
  <2>1. k - 1 \in Nat /\ 1..(k - 1) \subseteq 1..Step
    BY <1>2
  <2>2. Earlier(k - 1)' = Earlier(k - 1)
    BY <1>2, <2>1 DEF Earlier, Generated
  <2>3. \A j \in Earlier(k - 1) : actions'[j] = actions[j]
    BY <1>2, <2>1 DEF Earlier
  <2>4. ScopeAt(k - 1)' = ScopeAt(k - 1)
    BY <2>2, <2>3 DEF ScopeAt
  <2>5. Earlier(k - 1) # {} => Max(Earlier(k - 1)) \in Earlier(k - 1)
    BY <2>1, MaxIsIn DEF Earlier
  <2>6. LastAt(k - 1)' = LastAt(k - 1)
    BY <2>2, <2>3, <2>5 DEF LastAt
  <2>7. QED
    BY <2>4, <2>6
<1>4. ASSUME NEW k \in 1..n PROVE Settled(k)'
  <2>1. CASE k = n
    <3>1. n - 1 = Step
      BY <1>2
    <3>2. ScopeAt(k - 1)' = Scoped /\ LastAt(k - 1)' = Current
      BY <1>3, <2>1, <3>1, CurrentInScope
    <3>3. /\ plan.cand \in Scoped /\ result.cand \in Nat \cup {None}
          /\ plan.act \notin Generative => result.cand = Current
          /\ result.receipt # 0 => /\ result.receipt \in DOMAIN evidence
                                   /\ evidence[result.receipt].cand = result.cand
      BY <1>1 DEF HistoryInv, OnPlan, AtWork
    <3>4. QED
      BY <1>1, <1>2, <2>1, <3>2, <3>3 DEF Settled
  <2>2. CASE k \in 1..Step
    <3>1. Settled(k)
      BY <1>2, <2>2 DEF HistoryInv
    <3>2. QED
      BY <1>1, <1>2, <1>3, <2>2, <3>1 DEF Settled
  <2>3. QED
    BY <1>2, <2>1, <2>2
<1>5. OnPlan'
  BY <1>1 DEF HistoryInv, OnPlan, AtWork
<1>6. QED
  BY <1>1, <1>2, <1>4, <1>5 DEF HistoryInv

LEMMA HistoryStep == HistoryInv /\ [Next]_vars => HistoryInv'
<1> SUFFICES ASSUME HistoryInv, [Next]_vars PROVE HistoryInv'
  OBVIOUS
<1>1. CASE Start \/ StopLoop \/ Trace
  BY <1>1, Begins
<1>2. CASE Crash \/ BuildFails \/ PlanFails \/ BindFails \/ ProposeFails \/ EvaluateFails \/ TraceFails
  <2>1. PICK where \in Idle : Leave(where)
    BY <1>2 DEF Crash, BuildFails, PlanFails, BindFails, ProposeFails, EvaluateFails, TraceFails, Idle
  <2>2. QED
    BY <2>1, LeftBehind
<1>3. CASE Build \/ PlanAction
  BY <1>3, StateBuilt, ActionPlanned
<1>4. CASE Bind \/ Deploy
  BY <1>4, StepBound
<1>5. ASSUME NEW g \in Proposal, Propose(g) PROVE HistoryInv'
  <2>1. g.cand = Child(attempt + 1)
    BY DEF Proposal
  <2>2. QED
    BY <1>5, <2>1, ProposalMade
<1>6. CASE Unmaterializable \/ Screen \/ Unscreenable
  BY <1>6, ProposalScreened
<1>7. ASSUME NEW v, Evaluate(v) PROVE HistoryInv'
  BY <1>7, EvidenceAdded
<1>8. CASE Record
  BY <1>8, StepRecorded
<1>9. CASE SettleStrategy
  <2>1. /\ UNCHANGED <<actions, evidence, attempt>> /\ pc' = "tracing"
    BY <1>9 DEF SettleStrategy
  <2>2. OnPlan'
    BY <2>1 DEF HistoryInv, OnPlan, AtWork
  <2>3. QED
    BY <2>1, <2>2, HistoryStays
<1>10. CASE UNCHANGED vars
  <2>1. UNCHANGED <<actions, evidence, gens, pc, before, plan, attempt, result>>
    BY <1>10 DEF vars
  <2>2. Child(attempt)' = Child(attempt)
    BY <2>1 DEF Child, Step
  <2>3. OnPlan'
    BY <2>1, <2>2, ScopeStays DEF HistoryInv, OnPlan
  <2>4. QED
    BY <2>1, <2>3, HistoryStays
<1>11. QED
  BY <1>1, <1>2, <1>3, <1>4, <1>5, <1>6, <1>7, <1>8, <1>9, <1>10 DEF Next, Work

THEOREM HistoryInvariant == Spec => []HistoryInv
BY HistoryInit, HistoryStep, PTL DEF Spec

\* Whatever was redone or left behind, every stored step can be read again: its
\* source was in scope, an evaluation was of the current candidate, and its
\* evidence is of its result.
THEOREM HistoryHolds == Spec => []HistoryIsReadable
<1>1. HistoryInv => HistoryIsReadable
  <2> SUFFICES ASSUME HistoryInv, NEW k \in DOMAIN actions
      PROVE /\ actions[k].source \in ScopeAt(k - 1)
            /\ actions[k].act \notin Generative => actions[k].result = LastAt(k - 1)
            /\ actions[k].receipt # 0 =>
                 evidence[actions[k].receipt].cand = actions[k].result
    BY DEF HistoryIsReadable, ScopeAt, LastAt, Earlier
  <2>1. QED
    BY DEF HistoryInv, Settled
<1>2. QED
  BY <1>1, HistoryInvariant, PTL
-----------------------------------------------------------------------------
(* What a step is charged *)

\* g is a generation made for step s.
MadeIn(g, s) == \E n \in 1..Attempts : g.cand = Root + s * Attempts + n

Made(s) == {g \in gens : MadeIn(g, s)}

CostOf(S) == SumFunction([g \in S |-> g.cost])

Cost(k) ==
  CostOf(Made(k - 1)) + (IF actions[k].receipt = 0 THEN 0 ELSE EvaluationCost)

\* The promise about step k, with the type that adding up the charges needs.
Charged(k) ==
  /\ actions[k].used \in Nat
  /\ actions[k].used <= Cost(k)
  /\ k - 1 \notin cut => actions[k].used = Cost(k)

GenerationsOK ==
  IsFiniteSet(gens) /\ \A g \in gens : g.cost \in Nat /\ \E s \in 0..Step : MadeIn(g, s)

Attempting ==
  /\ attempt \in 0..Attempts
  /\ pc = "generating" => attempt < Attempts
  /\ pc \notin AtWork \cup {"settling", "tracing"} => attempt = 0

\* The generations of the next step are those the loop has just made for it,
\* or the step was cut short before.
FreshStep ==
  \A g \in gens : MadeIn(g, Step) /\ Step \notin cut => pc \in AtWork /\ g \in Rows

ChargeInv ==
  /\ IsSeq(actions) /\ GenerationsOK /\ Attempting /\ FreshStep
  /\ \A k \in 1..Step : Charged(k)

\* A generation belongs to one step.
LEMMA MadeOnce ==
  ASSUME NEW g, NEW s \in Nat, NEW r \in Nat, MadeIn(g, s), MadeIn(g, r)
  PROVE  s = r
<1>1. ASSUME NEW a \in Nat, NEW b \in Nat, a < b, MadeIn(g, a), MadeIn(g, b)
      PROVE  FALSE
  <2>1. PICK m \in 1..Attempts : g.cand = Root + a * Attempts + m
    BY <1>1 DEF MadeIn
  <2>2. PICK n \in 1..Attempts : g.cand = Root + b * Attempts + n
    BY <1>1 DEF MadeIn
  <2>3. PICK d \in Nat : b = a + 1 + d
    <3>1. b - a - 1 \in Nat /\ b = a + 1 + (b - a - 1)
      BY <1>1
    <3>2. QED
      BY <3>1
  <2>4. Attempts \in Nat /\ a * Attempts \in Nat /\ d * Attempts \in Nat
    BY LoopAssumption
  <2>5. b * Attempts = a * Attempts + Attempts + d * Attempts
    BY <2>3, <2>4
  <2>6. QED
    BY <2>1, <2>2, <2>4, <2>5 DEF Root
<1>2. QED
  BY <1>1

\* Some of the generations cost no more than all of them.
LEMMA CostOfSome ==
  ASSUME NEW S, IsFiniteSet(S), \A g \in S : g.cost \in Nat, NEW T \in SUBSET S
  PROVE  /\ CostOf(T) \in Nat /\ CostOf(S) \in Nat
         /\ CostOf(T) <= CostOf(S)
<1> DEFINE f == [g \in S |-> g.cost]
<1>1. \A g \in S : f[g] \in Nat /\ f[g] \in Int
  OBVIOUS
<1>2. [g \in T |-> f[g]] = [g \in T |-> g.cost] /\ [g \in S |-> f[g]] = [g \in S |-> g.cost]
  OBVIOUS
<1> HIDE DEF f
<1>3. /\ SumFunction([g \in T |-> f[g]]) = SumFunctionOnSet(f, T)
      /\ SumFunction([g \in S |-> f[g]]) = SumFunctionOnSet(f, S)
  BY <1>1, SumOfPart
<1>4. /\ SumFunctionOnSet(f, T) \in Nat /\ SumFunctionOnSet(f, S) \in Nat
      /\ SumFunctionOnSet(f, T) <= SumFunctionOnSet(f, S)
  <2>1. IsFiniteSet(T) /\ \A g \in T : f[g] \in Nat
    BY <1>1, FS_Subset
  <2>2. QED
    BY <1>1, <2>1, SumOfNaturals
<1>5. QED
  BY <1>2, <1>3, <1>4 DEF CostOf

LEMMA ChargeInit == Init => ChargeInv
<1> SUFFICES ASSUME Init PROVE ChargeInv
  OBVIOUS
<1>1. actions = <<>> /\ gens = {} /\ attempt = 0 /\ pc = "down"
  BY DEF Init
<1>2. Step = 0 /\ IsSeq(actions)
  BY <1>1 DEF Step, IsSeq
<1>3. GenerationsOK /\ FreshStep
  BY <1>1, FS_EmptySet DEF GenerationsOK, FreshStep
<1>4. Attempting
  BY <1>1, LoopAssumption DEF Attempting, AtWork
<1>5. QED
  BY <1>2, <1>3, <1>4 DEF ChargeInv

\* A step that neither generates nor records leaves the charges as they are.
LEMMA ChargesStay ==
  ASSUME ChargeInv, UNCHANGED <<actions, gens>>, cut \subseteq cut',
         Attempting', FreshStep'
  PROVE  ChargeInv'
<1>1. Step' = Step /\ \A s : Made(s)' = Made(s)
  BY DEF Step, Made
<1>2. \A k : Cost(k)' = Cost(k)
  BY <1>1 DEF Cost
<1>3. \A k \in 1..Step : Charged(k)'
  BY <1>2 DEF ChargeInv, Charged
<1>4. GenerationsOK'
  BY <1>1 DEF ChargeInv, GenerationsOK
<1>5. QED
  BY <1>1, <1>3, <1>4 DEF ChargeInv

LEMMA ChargedAndLeft ==
  ASSUME ChargeInv, AtStep, NEW where \in Idle, Leave(where)
  PROVE  ChargeInv'
<1>1. /\ UNCHANGED <<actions, gens>> /\ attempt' = 0 /\ pc' = where
      /\ cut' = IF pc \in {"building", "deciding"} THEN cut ELSE cut \cup {before.step}
  BY DEF Leave, durable
<1>2. Step' = Step
  BY <1>1 DEF Step
<1>3. FreshStep'
  <2> SUFFICES ASSUME NEW g \in gens, MadeIn(g, Step), Step \notin cut' PROVE FALSE
    BY <1>1, <1>2 DEF FreshStep
  <2>1. pc \in AtWork
    BY <1>1 DEF ChargeInv, FreshStep
  <2>2. before.step = Step /\ before.step \in cut'
    BY <1>1, <2>1 DEF AtStep, AtWork
  <2>3. QED
    BY <2>2
<1>4. Attempting'
  BY <1>1, LoopAssumption DEF Attempting, AtWork, Idle
<1>5. QED
  BY <1>1, <1>3, <1>4, ChargesStay

\* Before the loop works on a step nothing has been generated for it, unless
\* an earlier attempt at the step was cut short.
LEMMA ChargedAndReady ==
  ASSUME ChargeInv,
         \/ Start \/ Build \/ PlanAction \/ StopLoop \/ Bind \/ Deploy
         \/ SettleStrategy \/ Trace
  PROVE  ChargeInv'
<1>1. /\ UNCHANGED <<actions, gens, cut>> /\ pc \notin AtWork
      /\ attempt' = attempt \/ attempt' = 0
  BY DEF Start, Build, PlanAction, StopLoop, Bind, Deploy, SettleStrategy, Trace,
         durable, AtWork, Idle
<1>2. FreshStep'
  BY <1>1 DEF ChargeInv, FreshStep, Step
<1>3. CASE SettleStrategy \/ Trace
  <2>1. \/ pc' = "tracing" /\ attempt' = attempt
        \/ pc' = "building" /\ attempt' = 0
    BY <1>3 DEF SettleStrategy, Trace
  <2>2. Attempting'
    BY <2>1, LoopAssumption DEF ChargeInv, Attempting, AtWork
  <2>3. QED
    BY <1>1, <1>2, <2>2, ChargesStay
<1>4. CASE Start \/ Build \/ PlanAction \/ StopLoop \/ Bind \/ Deploy
  <2>1. attempt' = 0
    BY <1>4 DEF Start, Build, PlanAction, StopLoop, Bind, Deploy, durable,
                ChargeInv, Attempting, AtWork, Idle
  <2>2. Attempting'
    BY <2>1, LoopAssumption DEF Attempting
  <2>3. QED
    BY <1>1, <1>2, <2>2, ChargesStay
<1>5. QED
  BY <1>3, <1>4

LEMMA ChargedAtWork ==
  ASSUME ChargeInv,
         Unmaterializable \/ Screen \/ Unscreenable \/ (\E v : Evaluate(v))
  PROVE  ChargeInv'
<1>1. UNCHANGED <<actions, gens, cut, attempt>> /\ pc \in AtWork /\ pc' \in AtWork
  BY DEF Unmaterializable, Screen, Unscreenable, Evaluate, GiveUp, durable, AtWork
<1>2. pc' = "generating" => attempt < Attempts
  BY DEF Unmaterializable, Screen, Unscreenable, Evaluate, GiveUp
<1>3. Attempting'
  BY <1>1, <1>2 DEF ChargeInv, Attempting
<1>4. Rows' = Rows /\ Step' = Step
  BY <1>1 DEF Rows, Child, Step
<1>5. FreshStep'
  BY <1>1, <1>4 DEF ChargeInv, FreshStep
<1>6. QED
  BY <1>1, <1>3, <1>5, ChargesStay

\* A generation is made for the next step, which no action is charged for yet.
LEMMA ChargedAndProposed ==
  ASSUME ChargeInv, NEW g, g.cand = Child(attempt + 1), g.cost \in Nat, Propose(g)
  PROVE  ChargeInv'
<1>1. /\ UNCHANGED <<actions, cut>> /\ gens' = gens \cup {g} /\ attempt' = attempt + 1
      /\ pc = "generating" /\ pc' \in {"screening", "recording"}
  BY DEF Propose, GiveUp
<1>2. Step' = Step /\ Step \in Nat /\ attempt \in 0..Attempts /\ attempt < Attempts
      /\ Attempts \in Nat
  BY <1>1, Length, LoopAssumption DEF Step, ChargeInv, Attempting
<1>3. MadeIn(g, Step)
  BY <1>2 DEF MadeIn, Child
<1>4. GenerationsOK'
  <2>1. IsFiniteSet(gens')
    BY <1>1, FS_AddElement DEF ChargeInv, GenerationsOK
  <2>2. Step \in 0..Step
    BY <1>2
  <2>3. QED
    BY <1>1, <1>2, <1>3, <2>1, <2>2 DEF ChargeInv, GenerationsOK
<1>5. Attempting'
  BY <1>1, <1>2 DEF Attempting, AtWork
<1>6. FreshStep'
  <2>1. \A h \in Rows : h \in Rows'
    BY <1>1, <1>2 DEF Rows, Child, Step
  <2>2. g \in Rows'
    BY <1>1, <1>2 DEF Rows, Child, Step
  <2>3. pc' \in AtWork
    BY <1>1 DEF AtWork
  <2>4. QED
    BY <1>1, <1>2, <2>1, <2>2, <2>3 DEF ChargeInv, FreshStep
<1>7. ASSUME NEW k \in 1..Step PROVE Charged(k)'
  <2>1. k - 1 \in Nat /\ k - 1 # Step
    BY <1>2
  <2>2. ~MadeIn(g, k - 1)
    BY <1>2, <1>3, <2>1, MadeOnce
  <2>3. Made(k - 1)' = Made(k - 1)
    BY <1>1, <2>2 DEF Made
  <2>4. Cost(k)' = Cost(k)
    BY <1>1, <2>3 DEF Cost
  <2>5. QED
    BY <1>1, <2>4 DEF ChargeInv, Charged
<1>8. QED
  BY <1>1, <1>2, <1>4, <1>5, <1>6, <1>7 DEF ChargeInv

\* What the step is charged is what its own attempts cost; that is all that was
\* generated for it, unless it was cut short before.
LEMMA UsageIsCost ==
  ASSUME ChargeInv, pc = "recording"
  PROVE  LET all == CostOf(Made(Step)) + (IF result.receipt = 0 THEN 0 ELSE EvaluationCost)
         IN Usage \in Nat /\ Usage <= all /\ (Step \notin cut => Usage = all)
<1>1. Rows \subseteq Made(Step)
  BY LoopAssumption DEF Rows, Made, MadeIn, Child, ChargeInv, Attempting
<1>2. Step \notin cut => Rows = Made(Step)
  BY <1>1 DEF ChargeInv, FreshStep, Made
<1>3. IsFiniteSet(Made(Step)) /\ \A g \in Made(Step) : g.cost \in Nat
  <2>1. Made(Step) \subseteq gens
    BY DEF Made
  <2>2. QED
    BY <2>1, FS_Subset DEF ChargeInv, GenerationsOK
<1>4. CostOf(Rows) \in Nat /\ CostOf(Made(Step)) \in Nat /\ CostOf(Rows) <= CostOf(Made(Step))
  BY <1>1, <1>3, CostOfSome
<1>5. Usage = CostOf(Rows) + (IF result.receipt = 0 THEN 0 ELSE EvaluationCost)
  BY DEF Usage, CostOf
<1>6. EvaluationCost \in Nat
  BY LoopAssumption
<1>7. QED
  BY <1>2, <1>4, <1>5, <1>6

LEMMA ChargedAndRecorded == ASSUME ChargeInv, Record PROVE ChargeInv'
<1> DEFINE row == [act |-> plan.act, source |-> plan.cand, result |-> result.cand,
                   receipt |-> result.receipt, used |-> Usage, failed |-> result.failed]
           n == Step + 1
<1>1. /\ UNCHANGED <<gens, cut, attempt>> /\ pc = "recording"
      /\ pc' \in {"settling", "tracing"} /\ actions' = Append(actions, row)
  BY DEF Record
<1>2. /\ IsSeq(actions') /\ Step \in Nat /\ Step' = n
      /\ actions'[n] = row /\ \A k \in 1..Step : actions'[k] = actions[k]
  BY <1>1, Appended DEF ChargeInv, Step
<1>3. \A s : Made(s)' = Made(s)
  BY <1>1 DEF Made
<1>4. ASSUME NEW k \in 1..n PROVE Charged(k)'
  <2>1. CASE k = n
    <3>1. actions'[k].used = Usage /\ actions'[k].receipt = result.receipt /\ k - 1 = Step
      BY <1>2, <2>1
    <3>2. Cost(k)' = CostOf(Made(Step)) + (IF result.receipt = 0 THEN 0 ELSE EvaluationCost)
      BY <1>3, <3>1 DEF Cost
    <3>3. QED
      BY <1>1, <3>1, <3>2, UsageIsCost DEF Charged
  <2>2. CASE k \in 1..Step
    <3>1. Cost(k)' = Cost(k)
      BY <1>2, <1>3, <2>2 DEF Cost
    <3>2. QED
      BY <1>1, <1>2, <2>2, <3>1 DEF ChargeInv, Charged
  <2>3. QED
    BY <1>2, <2>1, <2>2
<1>5. GenerationsOK'
  <2>1. 0..Step \subseteq 0..n
    BY <1>2
  <2>2. QED
    BY <1>1, <1>2, <2>1 DEF ChargeInv, GenerationsOK
<1>6. FreshStep'
  <2> SUFFICES ASSUME NEW g \in gens, MadeIn(g, n) PROVE FALSE
    BY <1>1, <1>2 DEF FreshStep
  <2>1. PICK s \in 0..Step : MadeIn(g, s)
    BY DEF ChargeInv, GenerationsOK
  <2>2. s \in Nat /\ n \in Nat /\ s # n
    BY <1>2
  <2>3. QED
    BY <2>1, <2>2, MadeOnce
<1>7. Attempting'
  BY <1>1 DEF ChargeInv, Attempting, AtWork
<1>8. QED
  BY <1>2, <1>4, <1>5, <1>6, <1>7 DEF ChargeInv

LEMMA ChargeStep == ChargeInv /\ AtStep /\ [Next]_vars => ChargeInv'
<1> SUFFICES ASSUME ChargeInv, AtStep, [Next]_vars PROVE ChargeInv'
  OBVIOUS
<1>1. CASE Start \/ Build \/ PlanAction \/ StopLoop \/ Bind \/ Deploy \/ SettleStrategy \/ Trace
  BY <1>1, ChargedAndReady
<1>2. CASE Crash \/ BuildFails \/ PlanFails \/ BindFails \/ ProposeFails \/ EvaluateFails \/ TraceFails
  <2>1. PICK where \in Idle : Leave(where)
    BY <1>2 DEF Crash, BuildFails, PlanFails, BindFails, ProposeFails, EvaluateFails, TraceFails, Idle
  <2>2. QED
    BY <2>1, ChargedAndLeft
<1>3. CASE Unmaterializable \/ Screen \/ Unscreenable \/ (\E v : Evaluate(v))
  BY <1>3, ChargedAtWork
<1>4. ASSUME NEW g \in Proposal, Propose(g) PROVE ChargeInv'
  <2>1. g.cand = Child(attempt + 1) /\ g.cost \in Nat
    BY LoopAssumption DEF Proposal
  <2>2. QED
    BY <1>4, <2>1, ChargedAndProposed
<1>5. CASE Record
  BY <1>5, ChargedAndRecorded
<1>6. CASE UNCHANGED vars
  <2>1. UNCHANGED <<actions, gens, cut, attempt, pc>>
    BY <1>6 DEF vars
  <2>2. Rows' = Rows /\ Step' = Step
    BY <2>1 DEF Rows, Child, Step
  <2>3. Attempting' /\ FreshStep'
    BY <2>1, <2>2 DEF ChargeInv, Attempting, FreshStep
  <2>4. QED
    BY <2>1, <2>3, ChargesStay
<1>7. QED
  BY <1>1, <1>2, <1>3, <1>4, <1>5, <1>6 DEF Next, Work

THEOREM ChargeInvariant == Spec => []ChargeInv
<1>1. EscapeInv => AtStep
  BY DEF EscapeInv
<1>2. QED
  BY <1>1, ChargeInit, ChargeStep, EscapeInvariant, PTL DEF Spec

\* A settled step is charged for every generation made for it, rejected ones
\* included; one that was cut short before never for more.
THEOREM ActionsAlwaysChargeGenerations == Spec => []ActionsChargeTheirGenerations
<1>1. ChargeInv => ActionsChargeTheirGenerations
  <2> SUFFICES ASSUME ChargeInv, NEW k \in DOMAIN actions
      PROVE actions[k].used <= Cost(k) /\ (k - 1 \notin cut => actions[k].used = Cost(k))
    BY DEF ActionsChargeTheirGenerations, Cost, CostOf, Made, MadeIn
  <2>1. k \in 1..Step
    BY Length DEF ChargeInv, Step
  <2>2. QED
    BY <2>1 DEF ChargeInv, Charged
<1>2. QED
  BY <1>1, ChargeInvariant, PTL

-----------------------------------------------------------------------------
(* The budget *)

\* While a step is planned and worked on, the steps before it are within the
\* budget: it was checked when the step's state was built.
SpendInv ==
  /\ pc \in {"deciding", "binding", "deploying"} \cup AtWork => Used(Step) <= Budget
  /\ \A n \in 1..(Step - 1) : Used(n) <= Budget

LEMMA UsedIsNatural ==
  ASSUME ChargeInv, NEW n \in 0..Step
  PROVE  Used(n) \in Nat
<1> DEFINE f == [k \in 1..n |-> actions[k].used]
<1>1. Step \in Nat /\ IsFiniteSet(1..n)
  BY Length, FS_Interval DEF ChargeInv, Step
<1>2. \A k \in 1..n : f[k] \in Nat
  BY <1>1 DEF ChargeInv, Charged
<1>3. Used(n) = SumFunction([k \in 1..n |-> f[k]])
  BY DEF Used
<1> HIDE DEF f
<1>4. SumFunction([k \in 1..n |-> f[k]]) = SumFunctionOnSet(f, 1..n)
  BY <1>1, <1>2, SumOfPart
<1>5. SumFunctionOnSet(f, 1..n) \in Nat
  BY <1>1, <1>2, SumOfNaturals
<1>6. QED
  BY <1>3, <1>4, <1>5

LEMMA SpendInit == Init => SpendInv
BY DEF Init, SpendInv, Step, AtWork

LEMMA SpendStep == SpendInv /\ ChargeInv /\ [Next]_vars => SpendInv'
<1> SUFFICES ASSUME SpendInv, ChargeInv, [Next]_vars PROVE SpendInv'
  OBVIOUS
<1> DEFINE Working == {"deciding", "binding", "deploying"} \cup AtWork
<1>1. ASSUME UNCHANGED actions, pc' \in Working => pc \in Working
      PROVE  SpendInv'
  <2>1. Step' = Step /\ \A n : Used(n)' = Used(n)
    BY <1>1 DEF Step, Used
  <2>2. QED
    BY <1>1, <2>1 DEF SpendInv
<1>2. CASE Record
  <2>1. pc = "recording" /\ pc' \in {"settling", "tracing"}
    BY <1>2 DEF Record
  <2>2. /\ Step \in Nat /\ Step' = Step + 1
        /\ \A k \in 1..Step : actions'[k] = actions[k]
    BY <1>2, Appended DEF Record, ChargeInv, Step
  <2>3. ASSUME NEW n \in 1..Step PROVE Used(n)' <= Budget
    <3>1. [k \in 1..n |-> actions'[k].used] = [k \in 1..n |-> actions[k].used]
      BY <2>2
    <3>2. Used(n)' = Used(n)
      BY <3>1 DEF Used
    <3>3. n = Step \/ n \in 1..(Step - 1)
      BY <2>2
    <3>4. QED
      BY <2>1, <3>2, <3>3 DEF SpendInv, AtWork
  <2>4. QED
    BY <2>1, <2>2, <2>3 DEF SpendInv, AtWork
<1>3. CASE Build
  <2>1. UNCHANGED actions /\ ~Overspent
    BY <1>3 DEF Build, BuildRaises, durable
  <2>2. Step' = Step /\ \A n : Used(n)' = Used(n)
    BY <2>1 DEF Step, Used
  <2>3. Step \in Nat /\ Budget \in Nat
    BY Length, ProjectionAssumption DEF ChargeInv, Step
  <2>4. Used(Step) \in Nat
    BY <2>3, UsedIsNatural
  <2>5. Used(Step) <= Budget
    BY <2>1, <2>3, <2>4 DEF Overspent
  <2>6. QED
    BY <2>2, <2>5 DEF SpendInv
<1>4. CASE \/ Start \/ StopLoop \/ PlanAction \/ Bind \/ Deploy \/ SettleStrategy \/ Trace
           \/ Unmaterializable \/ Screen \/ Unscreenable
  <2>1. UNCHANGED actions /\ (pc' \in Working => pc \in Working)
    BY <1>4 DEF Start, StopLoop, PlanAction, Bind, AfterBinding, Deploy, SettleStrategy, Trace,
                Unmaterializable, Screen, Unscreenable, GiveUp, durable, AtWork
  <2>2. QED
    BY <1>1, <2>1
<1>5. CASE Crash \/ BuildFails \/ PlanFails \/ BindFails \/ ProposeFails \/ EvaluateFails \/ TraceFails
  <2>1. UNCHANGED actions /\ pc' \in Idle
    BY <1>5 DEF Crash, BuildFails, PlanFails, BindFails, ProposeFails, EvaluateFails, TraceFails,
                Leave, durable, Idle
  <2>2. pc' \notin Working
    BY <2>1 DEF AtWork, Idle
  <2>3. QED
    BY <1>1, <2>1, <2>2
<1>6. CASE (\E g : Propose(g)) \/ (\E v : Evaluate(v))
  <2>1. UNCHANGED actions /\ pc \in Working
    BY <1>6 DEF Propose, Evaluate, AtWork
  <2>2. QED
    BY <1>1, <2>1
<1>7. CASE UNCHANGED vars
  BY <1>1, <1>7 DEF vars
<1>8. QED
  BY <1>2, <1>3, <1>4, <1>5, <1>6, <1>7 DEF Next, Work

\* A search stops at the step that exceeds its budget: whatever its generations
\* and evaluations turn out to cost, without the last step it was within it.
THEOREM OnlyLastEverOverspends == Spec => []OnlyLastOverspends
<1>1. SpendInv => OnlyLastOverspends
  BY DEF SpendInv, OnlyLastOverspends, Used
<1>2. QED
  BY <1>1, SpendInit, SpendStep, ChargeInvariant, PTL DEF Spec

-----------------------------------------------------------------------------
(* The best utility *)

EvidenceOK == \A i \in DOMAIN evidence : evidence[i].value \in Nat

RankInv == HistoryInv /\ EvidenceOK

LEMMA EvidenceInit == Init => EvidenceOK
<1> DEFINE R == [cand : {0, 1}, rung : 1..Rungs, seed : 1..Seeds, value : Nat]
<1>1. \A e \in R : e.value \in Nat
  OBVIOUS
<1>2. FirstEvidence \in Seq(R)
  BY LoopAssumption
<1> HIDE DEF R
<1>3. \A i \in DOMAIN FirstEvidence : FirstEvidence[i].value \in Nat
  BY <1>1, <1>2
<1>4. QED
  BY <1>3 DEF Init, EvidenceOK

LEMMA EvidenceStep == RankInv /\ [Next]_vars => EvidenceOK'
<1> SUFFICES ASSUME RankInv, [Next]_vars PROVE EvidenceOK'
  OBVIOUS
<1>1. ASSUME NEW v \in Values \cup {0}, Evaluate(v) PROVE EvidenceOK'
  <2> DEFINE row == [cand |-> result.cand, rung |-> plan.rung, seed |-> NextSeed, value |-> v]
  <2>1. evidence' = Append(evidence, row) /\ v \in Nat
    BY <1>1, LoopAssumption DEF Evaluate
  <2>2. row.value = v
    OBVIOUS
  <2> HIDE DEF row
  <2>3. IsSeq(evidence)
    BY DEF RankInv, HistoryInv
  <2>4. QED
    BY <2>1, <2>2, <2>3, Appended DEF RankInv, EvidenceOK
<1>2. ASSUME UNCHANGED evidence PROVE EvidenceOK'
  BY <1>2 DEF RankInv, EvidenceOK
<1>3. CASE UNCHANGED vars
  BY <1>2, <1>3 DEF vars
<1>4. CASE Start \/ Crash
  BY <1>2, <1>4 DEF Start, Crash, Leave, durable
<1>5. CASE Build \/ BuildFails \/ PlanAction \/ PlanFails \/ StopLoop \/ Bind \/ BindFails \/ Deploy
  BY <1>2, <1>5 DEF Build, BuildFails, PlanAction, PlanFails, StopLoop, Bind, BindFails, Deploy,
                    Leave, durable
<1>6. CASE \/ Unmaterializable \/ (\E g \in Proposal : Propose(g)) \/ ProposeFails \/ Screen
           \/ Unscreenable \/ EvaluateFails
  BY <1>2, <1>6 DEF Unmaterializable, Propose, ProposeFails, Screen, Unscreenable, EvaluateFails,
                    Leave, durable
<1>7. CASE Record \/ SettleStrategy \/ Trace \/ TraceFails
  BY <1>2, <1>7 DEF Record, SettleStrategy, Trace, TraceFails, Leave, durable
<1>8. QED
  BY <1>1, <1>3, <1>4, <1>5, <1>6, <1>7 DEF Next, Work

THEOREM RankInvariant == Spec => []RankInv
<1>1. HistoryInv /\ EvidenceOK <=> RankInv
  BY DEF RankInv
<1>2. QED
  BY <1>1, EvidenceInit, EvidenceStep, HistoryInvariant, PTL DEF Spec

LEMMA QuotientIsNatural ==
  ASSUME NEW a \in Nat, NEW b \in Nat, b > 0
  PROVE  a \div b \in Nat
OBVIOUS

LEMMA UtilityIsNatural ==
  RankInv => \A c \in Ranked : Utility(c) \in Nat
<1> SUFFICES ASSUME RankInv, NEW c \in Ranked PROVE Utility(c) \in Nat
  OBVIOUS
<1> DEFINE I == Accepted(c)
           f == [i \in I |-> evidence[i].value]
<1>1. I # {} /\ I \subseteq DOMAIN evidence
  BY DEF Ranked, Feasible, Accepted, Evidence
<1>2. IsFiniteSet(I)
  <2>1. Len(evidence) \in Nat /\ DOMAIN evidence = 1..Len(evidence)
    BY Length DEF RankInv, HistoryInv
  <2>2. QED
    <3>1. IsFiniteSet(DOMAIN evidence)
      BY <2>1, FS_Interval
    <3> HIDE DEF I
    <3>2. QED
      BY <1>1, <3>1, FS_Subset
<1>3. \A i \in I : f[i] \in Nat
  BY <1>1 DEF RankInv, EvidenceOK
<1>4. Utility(c) = (Scale * SumFunction([i \in I |-> f[i]])) \div Cardinality(I)
  BY DEF Utility, Mean
<1> HIDE DEF f, I
<1>5. SumFunction([i \in I |-> f[i]]) \in Nat
  <2>1. SumFunction([i \in I |-> f[i]]) = SumFunctionOnSet(f, I)
    BY <1>2, <1>3, SumOfPart
  <2>2. SumFunctionOnSet(f, I) \in Nat
    BY <1>2, <1>3, SumOfNaturals
  <2>3. QED
    BY <2>1, <2>2
<1>6. Cardinality(I) \in Nat /\ Cardinality(I) > 0
  BY <1>1, <1>2, FS_CardinalityType, FS_EmptySet
<1>7. Scale * SumFunction([i \in I |-> f[i]]) \in Nat
  BY <1>5 DEF Scale
<1>8. QED
  BY <1>4, <1>6, <1>7, QuotientIsNatural

\* The best is a ranked candidate and none has a lower utility.
LEMMA BestIsLeast ==
  RankInv /\ Ranked # {} =>
    /\ Best.cand \in Ranked /\ Best.utility = Utility(Best.cand)
    /\ \A c \in Ranked : Best.utility <= Utility(c)
    /\ Best.utility \in Nat
<1> SUFFICES ASSUME RankInv, Ranked # {}
    PROVE /\ Best.cand \in Ranked /\ Best.utility = Utility(Best.cand)
          /\ \A c \in Ranked : Best.utility <= Utility(c)
          /\ Best.utility \in Nat
  OBVIOUS
<1>1. \A c \in Ranked : Utility(c) \in Nat
  BY UtilityIsNatural
<1>2. Ranked \subseteq Nat
  BY CurrentInScope DEF Ranked, RankInv
<1> DEFINE U == {Utility(c) : c \in Ranked}
<1>3. PICK u \in U : \A m \in U : u <= m
  <2>1. U \in SUBSET Nat /\ U # {}
    BY <1>1
  <2> HIDE DEF U
  <2>2. QED
    BY <2>1, LeastNatural
<1> DEFINE C == {c \in Ranked : Utility(c) = u}
<1>4. PICK b \in C : \A m \in C : b <= m
  <2>1. C \in SUBSET Nat /\ C # {}
    BY <1>2, <1>3
  <2> HIDE DEF C
  <2>2. QED
    BY <2>1, LeastNatural
<1> DEFINE ranked == {[utility |-> Utility(c), cand |-> c] : c \in Ranked}
           Least(p) == \A d \in ranked :
             p.utility < d.utility \/ (p.utility = d.utility /\ p.cand <= d.cand)
<1>5. [utility |-> u, cand |-> b] \in ranked /\ Least([utility |-> u, cand |-> b])
  <2>1. b \in Ranked /\ Utility(b) = u /\ u \in Nat
    BY <1>1, <1>3, <1>4
  <2>2. ASSUME NEW c \in Ranked PROVE u < Utility(c) \/ (u = Utility(c) /\ b <= c)
    <3>1. u <= Utility(c) /\ Utility(c) \in Nat
      BY <1>1, <1>3
    <3>2. QED
      BY <1>4, <2>1, <3>1
  <2>3. QED
    BY <2>1, <2>2
<1>6. Best = CHOOSE p \in ranked : Least(p)
  BY DEF Best
<1>7. Best \in ranked /\ Least(Best)
  <2> HIDE DEF ranked, Least
  <2>1. \E p \in ranked : Least(p)
    BY <1>5
  <2>2. QED
    BY <1>6, <2>1
<1>8. PICK c \in Ranked : Best = [utility |-> Utility(c), cand |-> c]
  BY <1>7
<1>9. Best.cand = c /\ Best.utility = Utility(c)
  BY <1>8
<1>10. ASSUME NEW d \in Ranked PROVE Best.utility <= Utility(d)
  <2>1. [utility |-> Utility(d), cand |-> d] \in ranked
    OBVIOUS
  <2>2. Best.utility < Utility(d) \/ Best.utility = Utility(d)
    BY <1>7, <2>1
  <2>3. Utility(d) \in Nat /\ Best.utility \in Nat
    BY <1>1, <1>9
  <2>4. QED
    BY <2>2, <2>3
<1>11. QED
  BY <1>1, <1>9, <1>10

\* So after a step as well.
LEMMA BestIsLeastNext ==
  RankInv' /\ Ranked' # {} =>
    /\ Best'.utility \in Nat
    /\ \A c \in Ranked' : Best'.utility <= Utility(c)'
<1>1. RankInv /\ Ranked # {} =>
        Best.utility \in Nat /\ \A c \in Ranked : Best.utility <= Utility(c)
  BY BestIsLeast
<1>2. (RankInv /\ Ranked # {} =>
         Best.utility \in Nat /\ \A c \in Ranked : Best.utility <= Utility(c))'
  BY <1>1, PTL
<1>3. QED
  BY <1>2

\* Evidence of another candidate leaves a candidate's utility as it is.
LEMMA UtilityStays ==
  ASSUME NEW c,
         Evidence(c)' = Evidence(c), \A i \in Evidence(c) : evidence'[i] = evidence[i]
  PROVE  Utility(c)' = Utility(c) /\ (Feasible(c)' <=> Feasible(c))
<1>1. {evidence'[i].rung : i \in Evidence(c)'} = {evidence[i].rung : i \in Evidence(c)}
  OBVIOUS
<1>2. Fidelity(c)' = Fidelity(c)
  BY <1>1 DEF Fidelity
<1>3. Accepted(c)' = Accepted(c) /\ Accepted(c) \subseteq Evidence(c)
  BY <1>2 DEF Accepted
<1>4. [i \in Accepted(c)' |-> evidence'[i].value] = [i \in Accepted(c) |-> evidence[i].value]
  BY <1>3
<1>5. QED
  BY <1>3, <1>4 DEF Utility, Mean, Feasible

\* The best utility the projection knows becomes worse only by evaluating the
\* incumbent again, never because another candidate or step came in.
THEOREM OnlyReevaluationEverRegresses == Spec => OnlyReevaluationRegresses
<1> DEFINE Regress == Ranked # {} /\ Ranked' # {} /\ Best'.utility > Best.utility
           Reevaluated == /\ Len(evidence') > Len(evidence)
                          /\ evidence'[Len(evidence')].cand = Best.cand
<1>1. ASSUME RankInv, RankInv', [Next]_vars PROVE [Regress => Reevaluated]_vars
  <2> SUFFICES ASSUME Regress PROVE Reevaluated
    OBVIOUS
  <2>1. PICK b : /\ b = Best.cand /\ b \in Ranked
                 /\ Best.utility = Utility(b) /\ Best.utility \in Nat
    BY <1>1, BestIsLeast
  <2>2. Best'.utility \in Nat /\ \A c \in Ranked' : Best'.utility <= Utility(c)'
    BY <1>1, BestIsLeastNext
  <2>3. ASSUME b \in Scoped', Evidence(b)' = Evidence(b),
               \A i \in Evidence(b) : evidence'[i] = evidence[i]
        PROVE  FALSE
    <3>1. Utility(b)' = Utility(b) /\ (Feasible(b)' <=> Feasible(b))
      BY <2>3, UtilityStays
    <3>2. b \in Ranked'
      BY <2>1, <2>3, <3>1 DEF Ranked
    <3>3. QED
      BY <2>1, <2>2, <3>1, <3>2
  <2>4. ASSUME UNCHANGED <<actions, evidence>> PROVE FALSE
    <3>1. Scoped' = Scoped /\ Evidence(b)' = Evidence(b)
      BY <2>4, ScopeStays DEF Evidence
    <3>2. QED
      BY <2>1, <2>3, <2>4, <3>1 DEF Ranked
  <2>5. CASE Record
    <3>1. /\ UNCHANGED evidence /\ Step \in Nat /\ Step' = Step + 1
          /\ \A k \in 1..Step : actions'[k] = actions[k]
      BY <1>1, <2>5, Appended DEF Record, RankInv, HistoryInv, Step
    <3>2. Scoped \subseteq Scoped'
      BY <3>1 DEF Scoped, Generated
    <3>3. Evidence(b)' = Evidence(b)
      BY <3>1 DEF Evidence
    <3>4. QED
      BY <2>1, <2>3, <3>1, <3>2, <3>3 DEF Ranked
  <2>6. ASSUME NEW v, Evaluate(v) PROVE Reevaluated
    <3> DEFINE row == [cand |-> result.cand, rung |-> plan.rung, seed |-> NextSeed, value |-> v]
               n == Len(evidence) + 1
    <3>1. UNCHANGED actions /\ evidence' = Append(evidence, row)
      BY <2>6 DEF Evaluate
    <3>2. row.cand = result.cand
      OBVIOUS
    <3> HIDE DEF row
    <3>3. /\ Len(evidence) \in Nat /\ Len(evidence') = n
          /\ DOMAIN evidence = 1..(n - 1) /\ DOMAIN evidence' = 1..n
          /\ evidence'[n] = row /\ \A i \in 1..(n - 1) : evidence'[i] = evidence[i]
      BY <1>1, <3>1, Appended DEF RankInv, HistoryInv
    <3>4. CASE row.cand = b
      BY <2>1, <3>3, <3>4
    <3>5. CASE row.cand # b
      <4>1. Evidence(b)' = Evidence(b)
        BY <3>3, <3>5 DEF Evidence
      <4>2. \A i \in Evidence(b) : evidence'[i] = evidence[i]
        BY <3>3 DEF Evidence
      <4>3. QED
        BY <2>1, <2>3, <3>1, <4>1, <4>2, ScopeStays DEF Ranked
    <3>6. QED
      BY <3>4, <3>5
  <2>7. CASE UNCHANGED vars
    BY <2>4, <2>7 DEF vars
  <2>8. CASE Start \/ Crash
    BY <2>4, <2>8 DEF Start, Crash, Leave, durable
  <2>9. CASE Build \/ BuildFails \/ PlanAction \/ PlanFails \/ StopLoop \/ Bind \/ BindFails \/ Deploy
    BY <2>4, <2>9 DEF Build, BuildFails, PlanAction, PlanFails, StopLoop, Bind, BindFails, Deploy,
                      Leave, durable
  <2>10. CASE \/ Unmaterializable \/ (\E g \in Proposal : Propose(g)) \/ ProposeFails \/ Screen
              \/ Unscreenable \/ EvaluateFails
    BY <2>4, <2>10 DEF Unmaterializable, Propose, ProposeFails, Screen, Unscreenable,
                       EvaluateFails, Leave, durable
  <2>11. CASE SettleStrategy \/ Trace \/ TraceFails
    BY <2>4, <2>11 DEF SettleStrategy, Trace, TraceFails, Leave, durable
  <2>12. QED
    BY <1>1, <2>5, <2>6, <2>7, <2>8, <2>9, <2>10, <2>11 DEF Next, Work
<1>2. QED
  BY <1>1, RankInvariant, PTL DEF Spec, OnlyReevaluationRegresses
=============================================================================
