------------------------ MODULE DiscoveryCertification ------------------------
(***************************************************************************)
(* demo-discovery and demo-certify (src/discoveryos/domains/               *)
(* clearance_demo.py) with DiscoveryRunner.run and certify                 *)
(* (runtime/scheduler.py): three stages of evidence and racing, the freeze *)
(* of the winner in the ledger, the create-once decision record, and the   *)
(* final blind evaluation SplitVault grants to frozen candidates only.     *)
(*                                                                         *)
(* A session is one run of either command; sessions share the workspace,   *)
(* may overlap and may stop at any step.  Every discovery chooses how many *)
(* candidates it generates (--candidates), so runs over one seed may race  *)
(* different pools.  What execute does inside is ExperimentExecution: here *)
(* an experiment either has its one evidence, or the session stops.        *)
(***************************************************************************)
EXTENDS SafeRacing

CONSTANTS
  Sessions,
  Seeds,
  Pools,      \* Pools[s]: for each --candidates, the baseline and what is generated
  Verdicts,   \* Verdicts[c, f]: what an evaluation may come to
  MaxRuns     \* bound: commands started in one behaviour

VARIABLES
  evidence,      \* evidence[c, f, s]: the receipt of one experiment
  frozen,        \* frozen_candidates table
  decision,      \* decisions/discovery_winner.json
  certificates,  \* decisions/certification_<c>.json
  task,
  runs

vars == <<evidence, frozen, decision, certificates, task, runs>>

Stages == {"G0", "G1", "G2"}
Fidelities == Stages \cup {"G7"}

NoScore == [m \in Metrics |-> 0]
NoEvidence == [gate |-> "none", score |-> NoScore]
Verdict == [gate : {"feasible", "rejected"}, score : Scores]

ASSUME DiscoveryAssumption ==
  /\ Pools \in [Seeds -> SUBSET (SUBSET Candidates)]
  /\ \A s \in Seeds : \A P \in Pools[s] : IsFiniteSet(P)
  /\ Verdicts \in [Candidates \X Fidelities -> SUBSET Verdict]
  /\ MaxRuns \in Nat

\* A decision or certification file: the record names a candidate and the
\* receipt, hence the seed, it was taken from.  pool is history: what the
\* command that wrote it had to choose from.
Absent == [state |-> "absent", candidate |-> "none", seed |-> "none", pool |-> {}]
Torn   == [state |-> "torn", candidate |-> "none", seed |-> "none", pool |-> {}]
Written(c, s, P) == [state |-> "written", candidate |-> c, seed |-> s, pool |-> P]

Experiments == Candidates \X Fidelities \X Seeds

Idle == [pc |-> "idle", seed |-> "none", pool |-> {}, stage |-> "G0",
         active |-> {}, left |-> {}, winner |-> "none"]

At(w, pc) == task[w].pc = pc
Seed(w) == task[w].seed
Stage(w) == task[w].stage
Winner(w) == task[w].winner
Pool(w) == task[w].pool

Goto(w, pc) == task' = [task EXCEPT ![w].pc = pc]
End(w) == task' = [task EXCEPT ![w] = Idle]

Feasible(S, f, s) == {c \in S : evidence[c, f, s].gate = "feasible"}
ScoreAt(f, s) == [c \in Candidates |-> evidence[c, f, s].score]

Init ==
  /\ evidence = [x \in Experiments |-> NoEvidence]
  /\ frozen = {}
  /\ decision = Absent
  /\ certificates = [c \in Candidates |-> Absent]
  /\ task = [w \in Sessions |-> Idle]
  /\ runs = 0

-----------------------------------------------------------------------------
(* demo-discovery *)

\* A decision already written, or torn, ends the command without a run.
StartDiscovery(w, s, P) ==
  /\ At(w, "idle") /\ runs < MaxRuns
  /\ decision = Absent
  /\ runs' = runs + 1
  /\ task' = [task EXCEPT ![w] = [pc |-> "evaluate", seed |-> s, pool |-> P, stage |-> "G0",
                                  active |-> P, left |-> P, winner |-> "none"]]
  /\ UNCHANGED <<evidence, frozen, decision, certificates>>

\* One experiment of _run_stage ends with its evidence, new or existing.  At
\* G7 the vault issues a capability only for a frozen candidate.
Evaluate(w) ==
  /\ At(w, "evaluate")
  /\ \E c \in task[w].left :
       LET x == <<c, Stage(w), Seed(w)>> IN
       /\ IF evidence[x] = NoEvidence
          THEN /\ Stage(w) = "G7" => c \in frozen
               /\ \E v \in Verdicts[c, Stage(w)] : evidence' = [evidence EXCEPT ![x] = v]
          ELSE UNCHANGED evidence
       /\ task' = [task EXCEPT ![w].left = @ \ {c}]
  /\ UNCHANGED <<frozen, decision, certificates, runs>>

Half(n) == (n + 1) \div 2

Target(f, n) == IF f = "G0" THEN n ELSE IF Half(n) < 2 THEN 2 ELSE Half(n)

\* promote after G0 and G1; no candidate left is an error.
PromoteStage(w) ==
  /\ At(w, "evaluate") /\ task[w].left = {} /\ Stage(w) \in {"G0", "G1"}
  /\ LET promoted == Promote(Feasible(task[w].active, Stage(w), Seed(w)),
                             Target(Stage(w), Cardinality(task[w].active)),
                             ScoreAt(Stage(w), Seed(w)))
     IN IF promoted = {} THEN End(w)
        ELSE task' = [task EXCEPT ![w].stage = IF @ = "G0" THEN "G1" ELSE "G2",
                                  ![w].active = promoted, ![w].left = promoted]
  /\ UNCHANGED <<evidence, frozen, decision, certificates, runs>>

ChooseWinner(w) ==
  /\ At(w, "evaluate") /\ task[w].left = {} /\ Stage(w) = "G2"
  /\ LET F == Feasible(task[w].active, "G2", Seed(w))
     IN IF F = {} THEN End(w)
        ELSE task' = [task EXCEPT ![w].pc = "freeze",
                        ![w].winner = SelectWinner(F, ScoreAt("G2", Seed(w)))]
  /\ UNCHANGED <<evidence, frozen, decision, certificates, runs>>

FreezeCandidate(w) ==
  /\ At(w, "freeze")
  /\ frozen' = frozen \cup {Winner(w)}
  /\ Goto(w, "decide")
  /\ UNCHANGED <<evidence, decision, certificates, runs>>

\* Mutant: the record is opened for writing whether it exists or not.
OpenDecisionTruncating(w) ==
  /\ At(w, "decide")
  /\ decision' = Torn
  /\ Goto(w, "deciding")
  /\ UNCHANGED <<evidence, frozen, certificates, runs>>

\* write_record creates the file, or accepts one with the same content, or
\* raises; the event that follows is left out.
OpenDecision(w) ==
  /\ At(w, "decide")
  /\ \/ decision = Absent /\ decision' = Torn /\ Goto(w, "deciding")
     \/ decision # Absent /\ UNCHANGED decision /\ End(w)
  /\ UNCHANGED <<evidence, frozen, certificates, runs>>

\* A write that fails removes the file.
WriteDecision(w) ==
  /\ At(w, "deciding")
  /\ decision' \in {Written(Winner(w), Seed(w), Pool(w)), Absent}
  /\ End(w)
  /\ UNCHANGED <<evidence, frozen, certificates, runs>>

-----------------------------------------------------------------------------
(* demo-certify *)

\* Mutant: any frozen candidate is certified, the decision not being read.
StartCertificationUndecided(w, s) ==
  /\ At(w, "idle") /\ runs < MaxRuns
  /\ \E c \in frozen :
       /\ certificates[c] = Absent
       /\ task' = [task EXCEPT ![w] = [pc |-> "evaluate", seed |-> s, pool |-> {c}, stage |-> "G7",
                                       active |-> {c}, left |-> {c}, winner |-> c]]
  /\ runs' = runs + 1
  /\ UNCHANGED <<evidence, frozen, decision, certificates>>

\* The candidate is read from the decision record; it must be frozen.
StartCertification(w, s) ==
  /\ At(w, "idle") /\ runs < MaxRuns
  /\ decision.state = "written"
  /\ LET c == decision.candidate IN
       /\ certificates[c] = Absent
       /\ c \in frozen
       /\ task' = [task EXCEPT ![w] = [pc |-> "evaluate", seed |-> s, pool |-> {c}, stage |-> "G7",
                                       active |-> {c}, left |-> {c}, winner |-> c]]
  /\ runs' = runs + 1
  /\ UNCHANGED <<evidence, frozen, decision, certificates>>

\* Mutant: the certificate is written before the evaluation ends.
OpenCertificateEarly(w) ==
  /\ At(w, "evaluate") /\ Stage(w) = "G7"
  /\ \/ /\ certificates[Winner(w)] = Absent
        /\ certificates' = [certificates EXCEPT ![Winner(w)] = Torn]
        /\ Goto(w, "certifying")
     \/ certificates[Winner(w)] # Absent /\ UNCHANGED certificates /\ End(w)
  /\ UNCHANGED <<evidence, frozen, decision, runs>>

OpenCertificate(w) ==
  /\ At(w, "evaluate") /\ task[w].left = {} /\ Stage(w) = "G7"
  /\ \/ /\ certificates[Winner(w)] = Absent
        /\ certificates' = [certificates EXCEPT ![Winner(w)] = Torn]
        /\ Goto(w, "certifying")
     \/ certificates[Winner(w)] # Absent /\ UNCHANGED certificates /\ End(w)
  /\ UNCHANGED <<evidence, frozen, decision, runs>>

WriteCertificate(w) ==
  /\ At(w, "certifying")
  /\ \E file \in {Written(Winner(w), Seed(w), Pool(w)), Absent} :
       certificates' = [certificates EXCEPT ![Winner(w)] = file]
  /\ End(w)
  /\ UNCHANGED <<evidence, frozen, decision, runs>>

-----------------------------------------------------------------------------

\* The process dies, or execute raises; a file being written stays torn.
Stop(w) ==
  /\ ~At(w, "idle")
  /\ End(w)
  /\ UNCHANGED <<evidence, frozen, decision, certificates, runs>>

Session(w) ==
  \/ Evaluate(w) \/ PromoteStage(w) \/ ChooseWinner(w) \/ FreezeCandidate(w)
  \/ OpenDecision(w) \/ WriteDecision(w) \/ OpenCertificate(w) \/ WriteCertificate(w)
  \/ Stop(w)

Next ==
  \E w \in Sessions :
    \/ Session(w)
    \/ \E s \in Seeds : StartCertification(w, s) \/ \E P \in Pools[s] : StartDiscovery(w, s, P)

DiscoverySpec == Init /\ [][Next]_vars

-----------------------------------------------------------------------------
(* Properties *)

Files ==
  {Absent, Torn} \cup
  {Written(c, s, P) : c \in Candidates, s \in Seeds, P \in SUBSET Candidates}

Locals == [pc : {"idle", "evaluate", "freeze", "decide", "deciding", "certifying"},
           seed : Seeds \cup {"none"}, pool : SUBSET Candidates, stage : Fidelities,
           active : SUBSET Candidates, left : SUBSET Candidates,
           winner : Candidates \cup {"none"}]

DiscoveryTypeOK ==
  /\ evidence \in [Experiments -> Verdict \cup {NoEvidence}]
  /\ frozen \subseteq Candidates
  /\ decision \in Files
  /\ certificates \in [Candidates -> Files]
  /\ task \in [Sessions -> Locals]
  /\ runs \in 0..MaxRuns

\* Who a race over the pool P reaches G1 and G2 with, on the evidence there is.
Survivors(P, s) == Feasible(P, "G0", s)

Finalists(P, s) ==
  Promote(Feasible(Survivors(P, s), "G1", s), Target("G1", Cardinality(Survivors(P, s))),
          ScoreAt("G1", s))

\* docs/DECISIONS.md D-003: the decision, whichever of the competing and
\* retried runs wrote it, can be raced again from the pool of that run on the
\* evidence as it stands now, whatever runs over other pools of the seed have
\* added to it: its finalists all have their G2 evidence, and the decided
\* candidate is the winner rule's choice among the feasible ones.
DecisionFollowsRule ==
  decision.state = "written" =>
    LET s == decision.seed
        A == Finalists(decision.pool, s)
        F == Feasible(A, "G2", s)
    IN /\ \A c \in A : evidence[c, "G2", s] # NoEvidence
       /\ decision.candidate \in F \cap frozen
       /\ \A d \in F : ~Precedes(d, decision.candidate, ScoreAt("G2", s))

\* Racing is safe: whoever of a run's pool leads on all the G1 evidence of its
\* seed, its own or of other runs, is evaluated at G2 by it.
LeaderIsPromoted ==
  \A w \in Sessions :
    At(w, "evaluate") /\ Stage(w) = "G2" =>
      LET F == Feasible(Pool(w), "G1", Seed(w)) IN
      \A c \in F : (\A d \in F \ {c} : Precedes(c, d, ScoreAt("G1", Seed(w))))
                   => c \in task[w].active

\* D-003: nothing is evaluated on final blind before the winner is decided, and
\* nothing but the winner after, however many sessions froze a candidate.
BlindAfterDecision ==
  \A c \in Candidates, s \in Seeds :
    evidence[c, "G7", s] # NoEvidence =>
      decision.state = "written" /\ decision.candidate = c /\ c \in frozen

\* A certification record is about the winner and rests on final blind
\* evidence; the winner it certifies cannot change afterwards.
CertificatesAreOfTheWinner ==
  \A c \in Candidates :
    certificates[c].state = "written" =>
      /\ certificates[c].candidate = c /\ decision.candidate = c
      /\ evidence[c, "G7", certificates[c].seed] # NoEvidence

\* README.md: the winner is selected once and only the frozen winner is
\* certified; so once it is decided no other candidate is frozen.
OnlyTheWinnerIsFrozen ==
  decision.state = "written" => frozen = {decision.candidate}
============================================================================
