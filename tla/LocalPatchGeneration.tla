------------------------ MODULE LocalPatchGeneration ------------------------
(***************************************************************************)
(* LocalPatchOperator.propose and repair                                   *)
(* (src/discoveryos/operators/local_patch.py; StructuralRewriteOperator    *)
(* inherits _generate), over the reservations of ResourceLedger: a         *)
(* generation id is the experiment_id of its reservation.  Several callers *)
(* share one ledger, and the same request may be made again.               *)
(***************************************************************************)
EXTENDS ResourceLedger

CONSTANTS
  Workers,   \* callers: threads or processes
  RootOf,    \* root generation of each id; a proposal is its own root
  MaxCalls   \* bound: calls of propose and repair

ASSUME GenerationAssumption ==
  /\ RootOf \in [Experiments -> Experiments]
  /\ \A g \in Experiments : RootOf[RootOf[g]] = RootOf[g]
  /\ MaxCalls \in Nat

VARIABLES
  rows,        \* table generation_records
  candidates,  \* table candidates: the calls whose proposal was added
  rejected,    \* table resource_reservation_rejections
  call,        \* per worker: the request, what it was answered, its status
  at,          \* per worker: where its call is
  calls        \* calls made so far, the number of the last one

generationVars == <<reservations, rows, candidates, rejected, call, at, calls>>

IsRepair(g) == RootOf[g] # g

Absent == [status |-> "ABSENT", cand |-> 0, used |-> Zero, charged |-> FALSE]

NoCall == [gen |-> CHOOSE g \in Experiments : ~IsRepair(g), cand |-> 0,
           status |-> "NONE", used |-> Zero, charged |-> FALSE]

InitGeneration ==
  /\ InitReservations
  /\ rows = [g \in Experiments |-> Absent]
  /\ candidates = {} /\ rejected = {}
  /\ call = [w \in Workers |-> NoCall]
  /\ at = [w \in Workers |-> "idle"]
  /\ calls = 0

RepairsOf(root) == {g \in Experiments :
                      IsRepair(g) /\ RootOf[g] = root /\ rows[g].status # "ABSENT"}

\* A call is over, or raised: its locals are gone.
Drop(w) == at' = [at EXCEPT ![w] = "idle"] /\ call' = [call EXCEPT ![w] = NoCall]

Begin(w, g) ==
  /\ at[w] = "idle" /\ calls < MaxCalls
  /\ calls' = calls + 1
  /\ call' = [call EXCEPT ![w] = [NoCall EXCEPT !.gen = g, !.cand = calls + 1]]
  /\ at' = [at EXCEPT ![w] = "reserving"]
  /\ UNCHANGED <<reservations, rows, candidates, rejected>>

Propose(w, g) == ~IsRepair(g) /\ Begin(w, g)

\* repair, of a candidate whose evidence MechanicalDiagnostic admits.  What it
\* reads of the ledger it has read before it calls the provider.
Repair(w, g, broken) ==
  /\ IsRepair(g)
  /\ rows[RootOf[g]].status = "SUCCEEDED"
  /\ rows[RootOf[g]].cand \in broken
  /\ RepairsOf(RootOf[g]) = {}
  /\ Begin(w, g)

\* reserve_resources.  A request made again gets the reservation it has.
Reserve(w) ==
  /\ at[w] = "reserving"
  /\ ReserveResources(call[w].gen)
  /\ at' = [at EXCEPT ![w] = "calling"]
  /\ UNCHANGED <<rows, candidates, rejected, call, calls>>

ReserveRefused(w) ==
  /\ at[w] = "reserving"
  /\ Refused(call[w].gen)
  /\ call' = [call EXCEPT ![w].status = "BUDGET_REFUSED"]
  /\ at' = [at EXCEPT ![w] = "recording"]
  /\ UNCHANGED <<reservations, rows, candidates, rejected, calls>>

\* The provider answers at some cost: a proposal, or one that is not in its
\* schema or refused, which is INVALID_RESPONSE or REFUSED, or it fails.
Answer(w, status, used) ==
  /\ at[w] = "calling"
  /\ call' = [call EXCEPT ![w].status = status, ![w].used = used]
  /\ at' = [at EXCEPT ![w] = "settling"]
  /\ UNCHANGED <<reservations, rows, candidates, rejected, calls>>

\* GenerationProviderError without a usage: the token ceiling is charged.
AnswerUnmetered(w) == Answer(w, "PROVIDER_FAILURE", Requested[call[w].gen])

\* Any other exception of the provider: the reservation stays open.
ProviderRaises(w) ==
  /\ at[w] = "calling"
  /\ Drop(w)
  /\ UNCHANGED <<reservations, rows, candidates, rejected, calls>>

\* Mutant: an answer that exceeds the budget is used like any other.
StatusUnchecked(status, over) == status

\* An answer that exceeds the budget is not looked at.
Status(status, over) ==
  IF over # {} /\ status # "PROVIDER_FAILURE" THEN "BUDGET_EXHAUSTED" ELSE status

Settle(w) ==
  LET g == call[w].gen
      status == Status(call[w].status, reservations'[g].over)
  IN /\ at[w] = "settling"
     /\ ReconcileResources(g, call[w].used)
     /\ call' = [call EXCEPT ![w].status = status, ![w].charged = TRUE]
     /\ at' = [at EXCEPT ![w] = IF status = "SUCCEEDED" THEN "materializing" ELSE "recording"]
     /\ UNCHANGED <<rows, candidates, rejected, calls>>

\* Another call settled the reservation with another usage.
SettleRaises(w) ==
  /\ at[w] = "settling"
  /\ ReconcileConflict(call[w].gen, call[w].used)
  /\ Drop(w)
  /\ UNCHANGED <<reservations, rows, candidates, rejected, calls>>

\* add_candidate.  The bundle names the provenance of this very call, so each
\* call adds a candidate of its own.
Materialize(w) ==
  /\ at[w] = "materializing"
  /\ candidates' = candidates \cup {call[w].cand}
  /\ at' = [at EXCEPT ![w] = "recording"]
  /\ UNCHANGED <<reservations, rows, rejected, call, calls>>

\* Mutant: without the index one_mechanical_repair_per_generation.
StorableByKey(g) == rows[g].status = "ABSENT"

\* add_generation.  A row stored by another call is never equal, its request
\* was created at another time; and a root has one repair.
Storable(g) ==
  /\ rows[g].status = "ABSENT"
  /\ IsRepair(g) => RepairsOf(RootOf[g]) = {}

\* A refusal of the budget is noted in a table of its own, too.
Record(w) ==
  LET c == call[w]
  IN /\ at[w] = "recording" /\ Storable(c.gen)
     /\ rows' = [rows EXCEPT ![c.gen] =
          [status |-> c.status, used |-> c.used, charged |-> c.charged,
           cand   |-> IF c.status = "SUCCEEDED" THEN c.cand ELSE 0]]
     /\ IF c.status = "BUDGET_REFUSED"
          THEN at' = [at EXCEPT ![w] = "rejecting"] /\ UNCHANGED call
          ELSE Drop(w)
     /\ UNCHANGED <<reservations, candidates, rejected, calls>>

RecordRaises(w) ==
  /\ at[w] = "recording" /\ ~Storable(call[w].gen)
  /\ Drop(w)
  /\ UNCHANGED <<reservations, rows, candidates, rejected, calls>>

Reject(w) ==
  /\ at[w] = "rejecting"
  /\ rejected' = rejected \cup {call[w].gen}
  /\ Drop(w)
  /\ UNCHANGED <<reservations, rows, candidates, calls>>

\* The process of the workers dies.
GenerationCrash ==
  /\ at' = [w \in Workers |-> "idle"]
  /\ call' = [w \in Workers |-> NoCall]
  /\ UNCHANGED <<reservations, rows, candidates, rejected, calls>>

------------------------------------------------------------------------------

\* Two repairs of one generation may both pass the check and both be paid
\* for, but the ledger has one, and it repairs a proposal that succeeded.
OneRepairPerRoot ==
  \A g \in Experiments :
    /\ Cardinality(RepairsOf(g)) <= 1
    /\ RepairsOf(g) # {} => rows[g].status = "SUCCEEDED"

\* A generation that is on record as called was charged what its record says,
\* though other calls of the same request may have settled its reservation;
\* it succeeded only within the budget and with its candidate in the ledger.
RecordsAreSettled ==
  \A g \in Experiments :
    /\ rows[g].charged => /\ reservations[g].status = "RECONCILED"
                          /\ reservations[g].actual = rows[g].used
    /\ rows[g].status = "SUCCEEDED" => /\ rows[g].charged
                                       /\ reservations[g].over = {}
                                       /\ rows[g].cand \in candidates
==============================================================================
